---- MODULE Spec2Model ----
(***************************************************************************)
(* Companies House API proxy (companies-house-search/server.py).           *)
(*                                                                         *)
(* Strings are sequences of characters; a character is a one-token string. *)
(* Regular expressions are matched as Python's re.match matches them: '^'  *)
(* anchors at the start and '$' matches at the end of the string or just   *)
(* before a newline that ends the string.                                  *)
(***************************************************************************)
EXTENDS Integers, Sequences, FiniteSets, TLC

VARIABLES
    COMPANIES_HOUSE_API_KEY, \* the credential read from the environment
    debug_mode,              \* FLASK_DEBUG, read when the server starts
    pc,                      \* where the request being handled stands
    req,                     \* the inbound request
    checks,                  \* the validations that have accepted this request
    outbound,                \* the requests.get calls issued for this request
    upstream,                \* what the upstream answered to the outbound call
    resp,                    \* the response returned to the caller
    stream,                  \* the state of generate(), the streamed body
    thread,                  \* the server thread that handles this request
    parked,                  \* the same for the request of the other thread
    fn, arg, ret             \* a pure function, its arguments and its result

vars == <<COMPANIES_HOUSE_API_KEY, debug_mode, pc, req, checks, outbound, upstream, resp,
          stream, thread, parked, fn, arg, ret>>

(***************************************************************************)
(* Characters                                                              *)
(***************************************************************************)
NL == "\n"
\* U+017F, LATIN SMALL LETTER LONG S: not ASCII, upper-cases to "S".
LongS == "U+017F"

Range(f) == {f[i] : i \in DOMAIN f}
UpperLetters == <<"A","B","C","D","E","F","G","H","I","J","K","L","M",
                  "N","O","P","Q","R","S","T","U","V","W","X","Y","Z">>
LowerLetters == <<"a","b","c","d","e","f","g","h","i","j","k","l","m",
                  "n","o","p","q","r","s","t","u","v","w","x","y","z">>
Digits == {"0","1","2","3","4","5","6","7","8","9"}
Whitespace == {" ", NL}
\* A character str.strip() removes and JSON does not count as whitespace.
FormFeed == "\f"
PyWhitespace == Whitespace \cup {FormFeed}

\* [A-Z0-9]
UpperAlnum == Range(UpperLetters) \cup Digits
\* [A-Z0-9] under re.IGNORECASE: the 52 ASCII letters, the digits, and the
\* non-ASCII letters whose case folding is an ASCII letter.
AlnumIgnoreCase == UpperAlnum \cup Range(LowerLetters) \cup {LongS}
\* [a-zA-Z0-9_-]
IdChars == Range(LowerLetters) \cup Range(UpperLetters) \cup Digits \cup {"_", "-"}

\* str.upper(), one character
UpperOf ==
    [c \in Range(LowerLetters) |->
        UpperLetters[CHOOSE i \in DOMAIN LowerLetters : LowerLetters[i] = c]]
UpperChar(c) ==
    IF c = LongS THEN "S" ELSE IF c \in DOMAIN UpperOf THEN UpperOf[c] ELSE c
upper(s) == [i \in DOMAIN s |-> UpperChar(s[i])]

\* c repeated n times
Rep(c, n) == [i \in 1..n |-> c]

(***************************************************************************)
(* re.match                                                                *)
(***************************************************************************)
\* A pattern ^prefix[class]{lo,hi}suffix$ ; hi = -1 stands for no upper limit.
Pat(prefix, class, lo, hi, suffix) ==
    [prefix |-> prefix, class |-> class, lo |-> lo, hi |-> hi, suffix |-> suffix]

\* What '$' accepts: the end of the string, or one newline ending the string.
DollarTails == {<<>>, <<NL>>}

re_match(p, s) ==
    \E n \in 0..Len(s) :
      \E t \in DollarTails :
        /\ n >= p.lo
        /\ (p.hi = -1 \/ n <= p.hi)
        /\ Len(s) = Len(p.prefix) + n + Len(p.suffix) + Len(t)
        /\ SubSeq(s, 1, Len(p.prefix)) = p.prefix
        /\ \A i \in (Len(p.prefix) + 1)..(Len(p.prefix) + n) : s[i] \in p.class
        /\ SubSeq(s, Len(p.prefix) + n + 1, Len(s)) = p.suffix \o t

(***************************************************************************)
(* Path literals                                                           *)
(***************************************************************************)
P_company == <<"/","c","o","m","p","a","n","y","/">>
P_officers == <<"/","o","f","f","i","c","e","r","s","/">>
P_document == <<"/","d","o","c","u","m","e","n","t","/">>
P_search_companies ==
    <<"/","s","e","a","r","c","h","/","c","o","m","p","a","n","i","e","s">>
P_search_officers ==
    <<"/","s","e","a","r","c","h","/","o","f","f","i","c","e","r","s">>
S_psc == <<"/","p","e","r","s","o","n","s","-","w","i","t","h","-",
           "s","i","g","n","i","f","i","c","a","n","t","-",
           "c","o","n","t","r","o","l">>
S_filing_history ==
    <<"/","f","i","l","i","n","g","-","h","i","s","t","o","r","y">>
S_charges == <<"/","c","h","a","r","g","e","s">>
S_officers == <<"/","o","f","f","i","c","e","r","s">>
S_appointments == <<"/","a","p","p","o","i","n","t","m","e","n","t","s">>
S_content == <<"/","c","o","n","t","e","n","t">>

(***************************************************************************)
(* validate_endpoint                                                       *)
(***************************************************************************)
ALLOWED_ENDPOINTS == <<
    Pat(P_company, UpperAlnum, 8, -1, <<>>),
    Pat(P_company, UpperAlnum, 8, -1, S_psc),
    Pat(P_company, UpperAlnum, 8, -1, S_filing_history),
    Pat(P_company, UpperAlnum, 8, -1, S_charges),
    Pat(P_company, UpperAlnum, 8, -1, S_officers),
    Pat(P_search_companies, {}, 0, 0, <<>>),
    Pat(P_search_officers, {}, 0, 0, <<>>),
    Pat(P_officers, IdChars, 1, -1, S_appointments) >>

validate_endpoint(endpoint) ==
    \E i \in DOMAIN ALLOWED_ENDPOINTS : re_match(ALLOWED_ENDPOINTS[i], endpoint)

(***************************************************************************)
(* int() and sanitize_integer_param                                        *)
(***************************************************************************)
\* A value handed to int(): None, an int, or a str.
NoneVal == [t |-> "none", v |-> 0, s |-> <<>>]
IntVal(n) == [t |-> "int", v |-> n, s |-> <<>>]
StrVal(s) == [t |-> "str", v |-> 0, s |-> s]

SetMin(S) == CHOOSE x \in S : \A y \in S : x <= y
SetMax(S) == CHOOSE x \in S : \A y \in S : x >= y
min(a, b) == IF a <= b THEN a ELSE b
max(a, b) == IF a >= b THEN a ELSE b

\* str.strip()
strip(s) ==
    LET keep == {i \in DOMAIN s : s[i] \notin PyWhitespace}
    IN  IF keep = {} THEN <<>> ELSE SubSeq(s, SetMin(keep), SetMax(keep))

DigitSeq == <<"0","1","2","3","4","5","6","7","8","9">>
DigitVal(c) == (CHOOSE i \in DOMAIN DigitSeq : DigitSeq[i] = c) - 1

RECURSIVE DecVal(_)
DecVal(ds) ==
    IF ds = <<>> THEN 0
    ELSE 10 * DecVal(SubSeq(ds, 1, Len(ds) - 1)) + DigitVal(ds[Len(ds)])

\* The digits of an int literal body: digits, single underscores between them.
IntBodyOk(b) ==
    /\ b # <<>>
    /\ b[1] \in Digits
    /\ b[Len(b)] \in Digits
    /\ \A i \in DOMAIN b : b[i] \in Digits \cup {"_"}
    /\ \A i \in 1..(Len(b) - 1) : ~(b[i] = "_" /\ b[i + 1] = "_")

SelectDigits(b) ==
    LET F[i \in 0..Len(b)] ==
          IF i = 0 THEN <<>>
          ELSE IF b[i] \in Digits THEN Append(F[i - 1], b[i]) ELSE F[i - 1]
    IN  F[Len(b)]

\* int(str): [ok |-> parsed, v |-> the value]; ok = FALSE is ValueError.
IntOfStr(s) ==
    LET t    == strip(s)
        sign == IF t # <<>> /\ t[1] \in {"-", "+"} THEN t[1] ELSE ""
        body == IF sign = "" THEN t ELSE SubSeq(t, 2, Len(t))
    IN  IF IntBodyOk(body)
        THEN [ok |-> TRUE,
              v  |-> IF sign = "-" THEN 0 - DecVal(SelectDigits(body))
                     ELSE DecVal(SelectDigits(body))]
        ELSE [ok |-> FALSE, v |-> 0]

\* int(value): ok = FALSE is the ValueError or TypeError the caller catches.
PyInt(value) ==
    CASE value.t = "none" -> [ok |-> FALSE, v |-> 0]
      [] value.t = "int"  -> [ok |-> TRUE, v |-> value.v]
      [] value.t = "str"  -> IntOfStr(value.s)

\* A plausible slip: the parsed value is returned without clamping.
sanitize_integer_param_unclamped(value, default, min_val, max_val) ==
    LET r == PyInt(value) IN IF r.ok THEN r.v ELSE default

sanitize_integer_param(value, default, min_val, max_val) ==
    LET r == PyInt(value)
    IN  IF r.ok THEN max(min_val, min(r.v, max_val)) ELSE default

\* The (default, min_val, max_val) the routes pass.
PageSize100 == [default |-> 100, min_val |-> 1, max_val |-> 1000]
PageSize20 == [default |-> 20, min_val |-> 1, max_val |-> 1000]
StartIndex == [default |-> 0, min_val |-> 0, max_val |-> 10000]
SanitizeConfigs == {PageSize100, PageSize20, StartIndex}

(***************************************************************************)
(* JSON bodies                                                             *)
(*                                                                         *)
(* A body is a sequence of lexical tokens; a string literal or a number is *)
(* one token.  response.json() accepts a value that is a scalar, an empty  *)
(* or one-member object, or an empty or one-element array, with optional   *)
(* whitespace between tokens; the bodies drawn below stay in that range.   *)
(***************************************************************************)
JsonStrings == {"'error'", "'company_name'", "'ACME LTD'", "'upstream detail'",
                "'Authentication failed'", "'Resource not found'",
                "'Request timeout'", "'External service error'",
                "'Internal server error'", "'Server configuration error'",
                "'Invalid endpoint requested'", "'Invalid company number format'",
                "'Invalid officer ID format'", "'Invalid document ID format'",
                "'Search query is required'", "'Search query too long'",
                "'Document not available'", "'status'", "'ok'"}
JsonNumbers == {"1"}

DropWhitespace(ts) ==
    LET F[i \in 0..Len(ts)] ==
          IF i = 0 THEN <<>>
          ELSE IF ts[i] \in Whitespace THEN F[i - 1] ELSE Append(F[i - 1], ts[i])
    IN  F[Len(ts)]

RECURSIVE JsonValue(_)
JsonValue(ts) ==
    \/ Len(ts) = 1 /\ ts[1] \in JsonStrings \cup JsonNumbers
    \/ ts = <<"{", "}">>
    \/ ts = <<"[", "]">>
    \/ /\ Len(ts) >= 5
       /\ ts[1] = "{" /\ ts[2] \in JsonStrings /\ ts[3] = ":" /\ ts[Len(ts)] = "}"
       /\ JsonValue(SubSeq(ts, 4, Len(ts) - 1))
    \/ /\ Len(ts) >= 3
       /\ ts[1] = "[" /\ ts[Len(ts)] = "]"
       /\ JsonValue(SubSeq(ts, 2, Len(ts) - 1))

\* response.json(): ok = FALSE is the JSON decode error it raises.
response_json(body) ==
    LET ts == DropWhitespace(body)
    IN  [ok |-> JsonValue(ts), value |-> IF JsonValue(ts) THEN ts ELSE <<>>]

\* jsonify(value): the compact serialisation, ended by a newline.
jsonify(value) == value \o <<NL>>

\* jsonify({'error': msg})
ErrorBody(msg) == jsonify(<<"{", "'error'", ":", msg, "}">>)

(***************************************************************************)
(* Responses and upstream calls                                            *)
(***************************************************************************)
NoKey == ""
API_BASE_URL == "https://api.company-information.service.gov.uk"
DOCUMENT_API_BASE_URL == "https://document-api.company-information.service.gov.uk"

\* base64 of "<key>:" behind "Basic "
BasicAuth(key) == <<"Basic", "b64", key, ":">>

NoQuery == [present |-> FALSE, s |-> <<>>]
Query(s) == [present |-> TRUE, s |-> s]
NoParams == [q |-> NoQuery, paged |-> FALSE, items_per_page |-> 0, start_index |-> 0]

NoResp == [status |-> 0, body |-> <<>>, headers |-> <<>>, streamed |-> FALSE]
NoCall == [base |-> "", path |-> <<>>, params |-> NoParams, authorization |-> <<>>,
           accept |-> "", timeout |-> 0, stream |-> FALSE]

\* return jsonify({'error': msg}), status
Respond(status, msg, passed) ==
    [act |-> "respond",
     resp |-> [status |-> status, body |-> ErrorBody(msg), headers |-> <<>>,
               streamed |-> FALSE],
     call |-> NoCall,
     checks |-> passed]

\* requests.get(...)
Get(call, passed) ==
    [act |-> "get", resp |-> NoResp, call |-> call, checks |-> passed]

\* A plausible slip: the credential is not looked at before the call.
ch_api_request_keyless(key, endpoint, query_params, passed) ==
    IF ~validate_endpoint(endpoint)
    THEN Respond(400, "'Invalid endpoint requested'", passed)
    ELSE Get([base |-> API_BASE_URL, path |-> endpoint, params |-> query_params,
              authorization |-> BasicAuth(key), accept |-> "", timeout |-> 30,
              stream |-> FALSE],
             passed \cup {"endpoint"})

\* A plausible slip: the credential is sent along in the URL.
ch_api_request_key_in_url(key, endpoint, query_params, passed) ==
    IF key = NoKey
    THEN Respond(500, "'Server configuration error'", passed)
    ELSE IF ~validate_endpoint(endpoint)
    THEN Respond(400, "'Invalid endpoint requested'", passed)
    ELSE Get([base |-> API_BASE_URL, path |-> endpoint \o <<"?", "api_key=", key>>,
              params |-> query_params,
              authorization |-> BasicAuth(key), accept |-> "", timeout |-> 30,
              stream |-> FALSE],
             passed \cup {"endpoint"})

\* ch_api_request, up to and including requests.get
ch_api_request(key, endpoint, query_params, passed) ==
    IF key = NoKey
    THEN Respond(500, "'Server configuration error'", passed)
    ELSE IF ~validate_endpoint(endpoint)
    THEN Respond(400, "'Invalid endpoint requested'", passed)
    ELSE Get([base |-> API_BASE_URL, path |-> endpoint, params |-> query_params,
              authorization |-> BasicAuth(key), accept |-> "", timeout |-> 30,
              stream |-> FALSE],
             passed \cup {"endpoint"})

(***************************************************************************)
(* Route handlers, up to the outbound call                                 *)
(***************************************************************************)
\* r'^[A-Z0-9]{6,8}$' with re.IGNORECASE
CompanyNumberRe == Pat(<<>>, AlnumIgnoreCase, 6, 8, <<>>)
\* r'^[a-zA-Z0-9_-]{1,100}$'
IdRe == Pat(<<>>, IdChars, 1, 100, <<>>)

\* request.args.get(name, default): the str given, or the default
ArgOr(a, default) == IF a.present THEN StrVal(a.s) ELSE IntVal(default)

PageParams(r, page) ==
    [q |-> NoQuery, paged |-> TRUE,
     items_per_page |->
        sanitize_integer_param(ArgOr(r.items_per_page, page.default),
                               page.default, page.min_val, page.max_val),
     start_index |->
        sanitize_integer_param(ArgOr(r.start_index, StartIndex.default),
                               StartIndex.default, StartIndex.min_val,
                               StartIndex.max_val)]

get_company_profile(key, r) ==
    IF ~re_match(CompanyNumberRe, r.ident)
    THEN Respond(400, "'Invalid company number format'", {})
    ELSE ch_api_request(key, P_company \o upper(r.ident), NoParams, {"param"})

\* get_company_pscs, get_filing_history, get_company_charges, get_officers
company_listing(key, r, suffix) ==
    IF ~re_match(CompanyNumberRe, r.ident)
    THEN Respond(400, "'Invalid company number format'", {})
    ELSE ch_api_request(key, P_company \o upper(r.ident) \o suffix,
                        PageParams(r, PageSize100), {"param"})

get_company_pscs(key, r) == company_listing(key, r, S_psc)
get_filing_history(key, r) == company_listing(key, r, S_filing_history)
get_company_charges(key, r) == company_listing(key, r, S_charges)
get_officers(key, r) == company_listing(key, r, S_officers)

MaxQueryLen == 200

\* A plausible slip: the length limit is off by one.
search_off_by_one(key, r, endpoint) ==
    LET query == strip(IF r.q.present THEN r.q.s ELSE <<>>)
    IN  IF query = <<>>
        THEN Respond(400, "'Search query is required'", {})
        ELSE IF Len(query) >= MaxQueryLen
        THEN Respond(400, "'Search query too long'", {})
        ELSE ch_api_request(key, endpoint,
                            [PageParams(r, PageSize20) EXCEPT !.q = Query(query)],
                            {"param"})

\* search_companies, search_officers
search(key, r, endpoint) ==
    LET query == strip(IF r.q.present THEN r.q.s ELSE <<>>)
    IN  IF query = <<>>
        THEN Respond(400, "'Search query is required'", {})
        ELSE IF Len(query) > MaxQueryLen
        THEN Respond(400, "'Search query too long'", {})
        ELSE ch_api_request(key, endpoint,
                            [PageParams(r, PageSize20) EXCEPT !.q = Query(query)],
                            {"param"})

search_companies(key, r) == search(key, r, P_search_companies)
search_officers(key, r) == search(key, r, P_search_officers)

get_officer_appointments(key, r) ==
    IF ~re_match(IdRe, r.ident)
    THEN Respond(400, "'Invalid officer ID format'", {})
    ELSE ch_api_request(key, P_officers \o r.ident \o S_appointments,
                        PageParams(r, PageSize100), {"param"})

\* get_document_content, up to and including requests.get
\* A plausible slip: the document call is given the timeout of the others.
get_document_content_short_timeout(key, r) ==
    IF key = NoKey
    THEN Respond(500, "'Server configuration error'", {})
    ELSE IF ~re_match(IdRe, r.ident)
    THEN Respond(400, "'Invalid document ID format'", {})
    ELSE Get([base |-> DOCUMENT_API_BASE_URL,
              path |-> P_document \o r.ident \o S_content,
              params |-> NoParams, authorization |-> BasicAuth(key),
              accept |-> r.accept, timeout |-> 30, stream |-> TRUE],
             {"param"})

get_document_content(key, r) ==
    IF key = NoKey
    THEN Respond(500, "'Server configuration error'", {})
    ELSE IF ~re_match(IdRe, r.ident)
    THEN Respond(400, "'Invalid document ID format'", {})
    ELSE Get([base |-> DOCUMENT_API_BASE_URL,
              path |-> P_document \o r.ident \o S_content,
              params |-> NoParams, authorization |-> BasicAuth(key),
              accept |-> r.accept, timeout |-> 60, stream |-> TRUE],
             {"param"})

\* health_check
HealthBody ==
    jsonify(<<"{", "'message'", ":", "'Companies House API Proxy is active and ready.'",
              ",", "'status'", ":", "'ok'", "}">>)

(***************************************************************************)
(* Response headers                                                        *)
(***************************************************************************)
LowerOf ==
    [c \in Range(UpperLetters) |->
        LowerLetters[CHOOSE i \in DOMAIN UpperLetters : UpperLetters[i] = c]]
\* str.lower(), one character
LowerChar(c) == IF c \in DOMAIN LowerOf THEN LowerOf[c] ELSE c
lower(s) == [i \in DOMAIN s |-> LowerChar(s[i])]

Header(name, value) == [name |-> name, value |-> value]

H_content_encoding == <<"c","o","n","t","e","n","t","-","e","n","c","o","d","i","n","g">>
H_content_length == <<"c","o","n","t","e","n","t","-","l","e","n","g","t","h">>
H_transfer_encoding == <<"t","r","a","n","s","f","e","r","-","e","n","c","o","d","i","n","g">>
H_connection == <<"c","o","n","n","e","c","t","i","o","n">>
excluded_headers ==
    {H_content_encoding, H_content_length, H_transfer_encoding, H_connection}

FilterSeq(hs, Keep(_)) ==
    LET F[i \in 0..Len(hs)] ==
          IF i = 0 THEN <<>>
          ELSE IF Keep(hs[i]) THEN Append(F[i - 1], hs[i]) ELSE F[i - 1]
    IN  F[Len(hs)]

\* [(name, value) for ... if name.lower() not in excluded_headers]
\* A plausible slip: the names are compared as the upstream wrote them.
filter_headers_case_sensitive(hs) ==
    LET Keep(h) == h.name \notin excluded_headers
    IN  FilterSeq(hs, Keep)

filter_headers(hs) ==
    LET Keep(h) == lower(h.name) \notin excluded_headers
    IN  FilterSeq(hs, Keep)

H_X_Content_Type_Options == <<"X","-","C","o","n","t","e","n","t","-","T","y","p","e","-","O","p","t","i","o","n","s">>
H_X_Frame_Options == <<"X","-","F","r","a","m","e","-","O","p","t","i","o","n","s">>
H_X_XSS_Protection == <<"X","-","X","S","S","-","P","r","o","t","e","c","t","i","o","n">>
H_Strict_Transport_Security == <<"S","t","r","i","c","t","-","T","r","a","n","s","p","o","r","t","-","S","e","c","u","r","i","t","y">>
H_Content_Security_Policy == <<"C","o","n","t","e","n","t","-","S","e","c","u","r","i","t","y","-","P","o","l","i","c","y">>
H_Content_Type == <<"C","o","n","t","e","n","t","-","T","y","p","e">>

SECURITY_HEADERS == <<
    Header(H_X_Content_Type_Options, "nosniff"),
    Header(H_X_Frame_Options, "DENY"),
    Header(H_X_XSS_Protection, "1; mode=block"),
    Header(H_Strict_Transport_Security, "max-age=31536000; includeSubDomains"),
    Header(H_Content_Security_Policy,
           "default-src 'self'; script-src 'self' 'unsafe-inline'; style-src 'self' 'unsafe-inline'; img-src 'self' data: https:; font-src 'self' https://fonts.gstatic.com; connect-src 'self'") >>

\* response.headers[name] = value: replaces every header of that name
\* (names compare case-insensitively), or adds one.
SetHeader(hs, h) ==
    LET Other(x) == lower(x.name) # lower(h.name)
        same == {i \in DOMAIN hs : ~Other(hs[i])}
    IN  IF same = {} THEN Append(hs, h)
        ELSE FilterSeq(SubSeq(hs, 1, SetMin(same) - 1), Other)
             \o <<h>> \o FilterSeq(SubSeq(hs, SetMin(same) + 1, Len(hs)), Other)

add_security_headers(response) ==
    LET F[i \in 0..Len(SECURITY_HEADERS)] ==
          IF i = 0 THEN response.headers
          ELSE SetHeader(F[i - 1], SECURITY_HEADERS[i])
    IN  [response EXCEPT !.headers = F[Len(SECURITY_HEADERS)]]

(***************************************************************************)
(* What requests.get produces, and the handlers from there on              *)
(***************************************************************************)
\* Exception classes with their base classes (requests.exceptions).
Exc(cls, bases) == [cls |-> cls, bases |-> bases \cup {cls, "Exception"}]
ConnectTimeout == Exc("ConnectTimeout", {"ConnectionError", "Timeout", "RequestException"})
ReadTimeout == Exc("ReadTimeout", {"Timeout", "RequestException"})
ConnectionError == Exc("ConnectionError", {"RequestException"})
RuntimeError == Exc("RuntimeError", {})
\* response.json() raises requests.exceptions.JSONDecodeError, a
\* RequestException, or with an older requests a plain ValueError.
JSONDecodeErrors ==
    {Exc("JSONDecodeError", {"InvalidJSONError", "RequestException", "ValueError"}),
     Exc("JSONDecodeError", {"ValueError"})}
NoExc == [cls |-> "", bases |-> {}]

Plain(status, body) ==
    [status |-> status, body |-> body, headers |-> <<>>, streamed |-> FALSE]

\* A plausible slip: RequestException is caught before Timeout.
except_clauses_swapped(e) ==
    IF "RequestException" \in e.bases
    THEN Plain(502, ErrorBody("'External service error'"))
    ELSE IF "Timeout" \in e.bases
    THEN Plain(504, ErrorBody("'Request timeout'"))
    ELSE Plain(500, ErrorBody("'Internal server error'"))

\* except Timeout / except RequestException / except Exception
except_clauses(e) ==
    IF "Timeout" \in e.bases
    THEN Plain(504, ErrorBody("'Request timeout'"))
    ELSE IF "RequestException" \in e.bases
    THEN Plain(502, ErrorBody("'External service error'"))
    ELSE Plain(500, ErrorBody("'Internal server error'"))

\* A plausible slip: an upstream 401 is relayed like any other answer.
ch_api_request_resume_relay401(up, jsonError) ==
    IF up.kind = "raise" THEN except_clauses(up.exc)
    ELSE IF up.status = 404
    THEN Plain(404, ErrorBody("'Resource not found'"))
    ELSE IF response_json(up.body).ok
    THEN Plain(up.status, jsonify(response_json(up.body).value))
    ELSE except_clauses(jsonError)

\* ch_api_request, from the return of requests.get on
ch_api_request_resume(up, jsonError) ==
    IF up.kind = "raise" THEN except_clauses(up.exc)
    ELSE IF up.status = 401
    THEN Plain(401, ErrorBody("'Authentication failed'"))
    ELSE IF up.status = 404
    THEN Plain(404, ErrorBody("'Resource not found'"))
    ELSE IF response_json(up.body).ok
    THEN Plain(up.status, jsonify(response_json(up.body).value))
    ELSE except_clauses(jsonError)

\* get_document_content, from the return of requests.get on
\* A plausible slip: every 2xx answer is taken for the document.
get_document_content_resume_any_2xx(up) ==
    IF up.kind = "raise" THEN except_clauses(up.exc)
    ELSE IF up.status \notin 200..299
    THEN Plain(up.status, ErrorBody("'Document not available'"))
    ELSE [status |-> up.status, body |-> <<>>,
          headers |-> filter_headers(up.headers), streamed |-> TRUE]

get_document_content_resume(up) ==
    IF up.kind = "raise" THEN except_clauses(up.exc)
    ELSE IF up.status # 200
    THEN Plain(up.status, ErrorBody("'Document not available'"))
    ELSE [status |-> up.status, body |-> <<>>,
          headers |-> filter_headers(up.headers), streamed |-> TRUE]

(***************************************************************************)
(* generate(): the streamed document body                                  *)
(***************************************************************************)
max_size == 50 * 1024 * 1024
chunk_size == 8192

Chunk(id, len) == [id |-> id, len |-> len]
NoStream == [state |-> "none", pending |-> <<>>, downloaded |-> 0,
             emitted |-> <<>>, failure |-> NoExc, disconnected |-> FALSE]
OpenStream(chunks) == [NoStream EXCEPT !.state = "open", !.pending = chunks]

\* A plausible slip: the chunk is yielded before the total is looked at.
generate_next_yield_first(st, e) ==
    IF e # NoExc
    THEN [st EXCEPT !.state = "aborted", !.failure = e]
    ELSE IF st.pending = <<>>
    THEN [st EXCEPT !.state = "ended"]
    ELSE LET chunk == Head(st.pending)
             downloaded == st.downloaded + chunk.len
         IN  IF downloaded > max_size
             THEN [st EXCEPT !.state = "truncated", !.downloaded = downloaded,
                             !.emitted = Append(st.emitted, chunk)]
             ELSE [st EXCEPT !.pending = Tail(st.pending),
                             !.downloaded = downloaded,
                             !.emitted = Append(st.emitted, chunk)]

\* A plausible slip: >= where the code has >.
generate_next_ge(st, e) ==
    IF e # NoExc
    THEN [st EXCEPT !.state = "aborted", !.failure = e]
    ELSE IF st.pending = <<>>
    THEN [st EXCEPT !.state = "ended"]
    ELSE LET chunk == Head(st.pending)
             downloaded == st.downloaded + chunk.len
         IN  IF downloaded >= max_size
             THEN [st EXCEPT !.state = "truncated", !.downloaded = downloaded]
             ELSE [st EXCEPT !.pending = Tail(st.pending),
                             !.downloaded = downloaded,
                             !.emitted = Append(st.emitted, chunk)]

\* A plausible slip: the chunk that does not fit is passed over and the loop
\* goes on.
generate_next_skipping(st, e) ==
    IF e # NoExc
    THEN [st EXCEPT !.state = "aborted", !.failure = e]
    ELSE IF st.pending = <<>>
    THEN [st EXCEPT !.state = "ended"]
    ELSE LET chunk == Head(st.pending)
             downloaded == st.downloaded + chunk.len
         IN  IF downloaded > max_size
             THEN [st EXCEPT !.pending = Tail(st.pending)]
             ELSE [st EXCEPT !.pending = Tail(st.pending),
                             !.downloaded = downloaded,
                             !.emitted = Append(st.emitted, chunk)]

\* A plausible slip: the total is looked at before the chunk is added to it.
generate_next_counting_late(st, e) ==
    IF e # NoExc
    THEN [st EXCEPT !.state = "aborted", !.failure = e]
    ELSE IF st.pending = <<>>
    THEN [st EXCEPT !.state = "ended"]
    ELSE LET chunk == Head(st.pending)
         IN  IF st.downloaded > max_size
             THEN [st EXCEPT !.state = "truncated"]
             ELSE [st EXCEPT !.pending = Tail(st.pending),
                             !.downloaded = st.downloaded + chunk.len,
                             !.emitted = Append(st.emitted, chunk)]

\* A plausible slip: the part of the chunk that still fits is sent.
generate_next_filling(st, e) ==
    IF e # NoExc
    THEN [st EXCEPT !.state = "aborted", !.failure = e]
    ELSE IF st.pending = <<>>
    THEN [st EXCEPT !.state = "ended"]
    ELSE LET chunk == Head(st.pending)
             downloaded == st.downloaded + chunk.len
         IN  IF downloaded > max_size
             THEN [st EXCEPT !.state = "truncated", !.downloaded = max_size,
                             !.emitted = Append(st.emitted,
                                                Chunk(chunk.id, max_size - st.downloaded))]
             ELSE [st EXCEPT !.pending = Tail(st.pending),
                             !.downloaded = downloaded,
                             !.emitted = Append(st.emitted, chunk)]

\* One turn of the loop over response.iter_content; e is what iter_content
\* raises in this turn, NoExc when it raises nothing.
generate_next(st, e) ==
    IF e # NoExc
    THEN [st EXCEPT !.state = "aborted", !.failure = e]
    ELSE IF st.pending = <<>>
    THEN [st EXCEPT !.state = "ended"]
    ELSE LET chunk == Head(st.pending)
             downloaded == st.downloaded + chunk.len
         IN  IF downloaded > max_size
             THEN [st EXCEPT !.state = "truncated", !.downloaded = downloaded]
             ELSE [st EXCEPT !.pending = Tail(st.pending),
                             !.downloaded = downloaded,
                             !.emitted = Append(st.emitted, chunk)]

\* A plausible slip: the body is produced by something that goes on after
\* it has been closed.
generator_close_ignored(st) == st

\* The server closes the response when the caller has gone: GeneratorExit
\* is raised at the yield where generate() is suspended, nothing in
\* generate() catches it, and the loop over iter_content is left.
generator_close(st) == [st EXCEPT !.state = "closed"]

(***************************************************************************)
(* Static files: is_safe_path over werkzeug's safe_join and os.path        *)
(***************************************************************************)
StartsWith(s, p) == Len(s) >= Len(p) /\ SubSeq(s, 1, Len(p)) = p
\* sub in s, for strings
Contains(s, sub) ==
    \E i \in 1..(Len(s) - Len(sub) + 1) : SubSeq(s, i, i + Len(sub) - 1) = sub

RECURSIVE split(_, _)
\* str.split(sep), sep one character
split(s, sep) ==
    IF \A i \in DOMAIN s : s[i] # sep THEN <<s>>
    ELSE LET i == CHOOSE k \in DOMAIN s : s[k] = sep /\ \A j \in 1..(k - 1) : s[j] # sep
         IN  <<SubSeq(s, 1, i - 1)>> \o split(SubSeq(s, i + 1, Len(s)), sep)

RECURSIVE join(_, _)
\* sep.join(parts)
join(sep, parts) ==
    IF parts = <<>> THEN <<>>
    ELSE IF Len(parts) = 1 THEN parts[1]
    ELSE parts[1] \o sep \o join(sep, Tail(parts))

DotDot == <<".", ".">>
Slash == <<"/">>

RECURSIVE new_comps(_, _, _)
\* the loop of posixpath.normpath over the components of the path
new_comps(comps, acc, initial_slashes) ==
    IF comps = <<>> THEN acc
    ELSE LET comp == Head(comps)
         IN  IF comp = <<>> \/ comp = <<".">>
             THEN new_comps(Tail(comps), acc, initial_slashes)
             ELSE IF \/ comp # DotDot
                     \/ (initial_slashes = 0 /\ acc = <<>>)
                     \/ (acc # <<>> /\ acc[Len(acc)] = DotDot)
             THEN new_comps(Tail(comps), Append(acc, comp), initial_slashes)
             ELSE IF acc # <<>>
             THEN new_comps(Tail(comps), SubSeq(acc, 1, Len(acc) - 1), initial_slashes)
             ELSE new_comps(Tail(comps), acc, initial_slashes)

\* posixpath.normpath
normpath(path) ==
    IF path = <<>> THEN <<".">>
    ELSE LET initial_slashes ==
                 IF ~StartsWith(path, Slash) THEN 0
                 ELSE IF StartsWith(path, <<"/", "/">>) /\ ~StartsWith(path, <<"/", "/", "/">>)
                 THEN 2 ELSE 1
             body == join(Slash, new_comps(split(path, "/"), <<>>, initial_slashes))
             out == [i \in 1..initial_slashes |-> "/"] \o body
         IN  IF out = <<>> THEN <<".">> ELSE out

\* posixpath.join(a, b)
path_join(a, b) ==
    IF StartsWith(b, Slash) THEN b
    ELSE IF a = <<>> \/ a[Len(a)] = "/" THEN a \o b
    ELSE a \o Slash \o b

NoPath == [none |-> TRUE, path |-> <<>>]
SomePath(p) == [none |-> FALSE, path |-> p]

\* werkzeug.utils.safe_join(directory, filename): the joined path, or None
\* when the normalised filename is absolute or climbs out of the directory.
\* It raises for no string.
safe_join(directory, filename) ==
    LET name == IF filename # <<>> THEN normpath(filename) ELSE filename
    IN  IF \/ StartsWith(name, Slash)
           \/ name = DotDot
           \/ StartsWith(name, <<".", ".", "/">>)
        THEN NoPath
        ELSE SomePath(path_join(directory, name))

\* The regular files at and around the directory the server runs in, by
\* their path from that directory.
F_index == <<"i","n","d","e","x",".","h","t","m","l">>
F_style == <<"s","t","y","l","e",".","c","s","s">>
F_logo == <<"L","O","G","O",".","P","N","G">>
F_dotted == <<"a",".",".","b",".","h","t","m","l">>
F_notes == <<"n","o","t","e","s",".","t","x","t">>
F_server == <<"s","e","r","v","e","r",".","p","y">>
F_env == <<".","e","n","v">>
F_js_app == <<"j","s","/","a","p","p",".","j","s">>
F_js_map == <<"j","s","/","a","p","p",".","j","s",".","m","a","p">>
F_secret == <<".",".","/","s","e","c","r","e","t",".","h","t","m","l">>
F_passwd == <<".",".","/",".",".","/","e","t","c","/","p","a","s","s","w","d">>
Files ==
    {F_index, F_style, F_logo, F_dotted, F_notes, F_server, F_env, F_js_app,
     F_js_map, F_secret, F_passwd}

\* os.path.isfile
isfile(p) == normpath(p) \in Files

\* os.path.splitext(p)[1]
splitext_ext(p) ==
    LET seps == {i \in DOMAIN p : p[i] = "/"}
        sepIndex == IF seps = {} THEN 0 ELSE SetMax(seps)
        dots == {i \in DOMAIN p : p[i] = "."}
        dotIndex == IF dots = {} THEN 0 ELSE SetMax(dots)
    IN  IF dotIndex > sepIndex /\ \E i \in (sepIndex + 1)..(dotIndex - 1) : p[i] # "."
        THEN SubSeq(p, dotIndex, Len(p))
        ELSE <<>>

ALLOWED_EXTENSIONS ==
    {<<".","h","t","m","l">>, <<".","c","s","s">>, <<".","j","s">>,
     <<".","j","s","o","n">>, <<".","p","n","g">>, <<".","j","p","g">>,
     <<".","j","p","e","g">>, <<".","g","i","f">>, <<".","s","v","g">>,
     <<".","i","c","o">>, <<".","w","o","f","f">>, <<".","w","o","f","f","2">>,
     <<".","t","t","f">>}

TypeError == Exc("TypeError", {"TypeError", "Exception"})
Returned(v) == [raised |-> NoExc, value |-> v]
Raised(e) == [raised |-> e, value |-> FALSE]

\* is_safe_path: the value it returns or the exception that leaves it.
\* os.path.isfile(None) raises TypeError, outside the try that wraps safe_join.
is_safe_path(base_path, path, allowed_extensions) ==
    LET full_path == safe_join(base_path, path)
    IN  IF full_path.none THEN Raised(TypeError)
        ELSE IF ~isfile(full_path.path) THEN Returned(FALSE)
        ELSE IF lower(splitext_ext(full_path.path)) \notin allowed_extensions
        THEN Returned(FALSE)
        ELSE IF Contains(path, DotDot) \/ StartsWith(path, Slash)
        THEN Returned(FALSE)
        ELSE Returned(TRUE)

FileBody(p) == <<"contents of">> \o normpath(p)
PageBody(status) == <<"<!doctype html>", ToString(status)>>
FileNotFound == Plain(404, ErrorBody("'File not found'"))

\* flask.send_from_directory(directory, path): the file, or NotFound
send_from_directory(directory, path) ==
    LET full_path == safe_join(directory, path)
    IN  IF full_path.none \/ ~isfile(full_path.path)
        THEN [found |-> FALSE, resp |-> Plain(404, PageBody(404))]
        ELSE [found |-> TRUE, resp |-> Plain(200, FileBody(full_path.path))]

\* What a view function hands to Flask: a response, or an exception.
Returns(r) == [raised |-> NoExc, resp |-> r]
Raises(e) == [raised |-> e, resp |-> NoResp]

\* serve_static and serve_js, which differ in the directory only
serve_from(directory, filename) ==
    LET safe == is_safe_path(directory, filename, ALLOWED_EXTENSIONS)
    IN  IF safe.raised # NoExc THEN Raises(safe.raised)
        ELSE IF ~safe.value THEN Returns(FileNotFound)
        ELSE IF send_from_directory(directory, filename).found
        THEN Returns(send_from_directory(directory, filename).resp)
        ELSE Returns(FileNotFound)
serve_static(filename) == serve_from(<<".">>, filename)
serve_js(filename) == serve_from(<<"j","s">>, filename)
\* index(): NotFound is an HTTPException, which Flask turns into its response
index == Returns(send_from_directory(<<".">>, F_index).resp)

(***************************************************************************)
(* Inbound requests                                                        *)
(***************************************************************************)
MaxCompanyLen == 9
MaxPad == 1
MaxChunks == 2
MaxIdLen == 100

\* What the URL converter <company_number> can hand to a handler: any
\* non-empty string without "/".
CompanyNumberInputs ==
    {Rep(c, n) : c \in {"A", "a", "7"}, n \in 1..MaxCompanyLen}
    \cup {Rep("A", n) \o <<x>> : n \in 5..8, x \in {NL, ".", "-"}}
    \cup {Rep(LongS, 8), <<"a", "B", "1", "2", "c", "D">>, <<".", ".">>}

\* <officer_id>, <document_id>
IdInputs ==
    {Rep("a", n) : n \in {1, MaxIdLen, MaxIdLen + 1}}
    \cup {<<"d","o","c","1">>, <<"d","o","c","1",NL>>, <<"-","_","Z","9">>,
          <<"a",".","b">>, <<".",".">>, <<LongS>>}

\* ?q=
QueryInputs ==
    {NoQuery, Query(<<"a", " ", "b">>)}
    \cup {Query(Rep(" ", l) \o Rep("a", n) \o Rep(" ", t)) :
            l \in 0..MaxPad, t \in 0..MaxPad,
            n \in {0, 1, MaxQueryLen - 1, MaxQueryLen, MaxQueryLen + 1}}

\* ?items_per_page= and ?start_index=
NoArg == [present |-> FALSE, s |-> <<>>]
ArgInputs ==
    {NoArg} \cup {[present |-> TRUE, s |-> x] :
                    x \in {<<"x">>, <<"5">>, <<"9","9","9","9","9">>, <<"-","3">>}}

\* The two paging arguments of one request: both the same, or only one given.
ArgPairs ==
    {<<a, a>> : a \in ArgInputs}
    \cup {<<a, NoArg>> : a \in ArgInputs} \cup {<<NoArg, a>> : a \in ArgInputs}

AcceptInputs == {"*/*", "application/pdf"}

Req(route, ident, q, items_per_page, start_index, accept) ==
    [route |-> route, ident |-> ident, q |-> q, items_per_page |-> items_per_page,
     start_index |-> start_index, accept |-> accept]
NoReq == Req("", <<>>, NoQuery, NoArg, NoArg, "")

IdentReqs(route, idents) ==
    {Req(route, id, NoQuery, NoArg, NoArg, "") : id \in idents}
PagedReqs(route, idents) ==
    {Req(route, id, NoQuery, p[1], p[2], "") : id \in idents, p \in ArgPairs}
SearchReqs(route) ==
    {Req(route, <<>>, q, p[1], p[2], "") : q \in QueryInputs, p \in ArgPairs}
DocumentReqs ==
    {Req("get_document_content", id, NoQuery, NoArg, NoArg, a) :
        id \in IdInputs, a \in AcceptInputs}

(***************************************************************************)
(* Upstream answers                                                        *)
(***************************************************************************)
B_empty == <<>>
B_html == <<"<html>">>
B_company == <<"{", "'company_name'", ":", "'ACME LTD'", "}">>
B_company_spaced == <<"{", " ", "'company_name'", ":", " ", "'ACME LTD'", "}", NL>>
B_detail == <<"{", "'error'", ":", "'upstream detail'", "}">>
B_array == <<"[", "1", "]">>
UpstreamBodies == {B_empty, B_html, B_company, B_company_spaced, B_detail, B_array}

UpstreamStatuses == {200, 204, 206, 400, 401, 404, 500, 503}

UpstreamExceptions == {ConnectTimeout, ReadTimeout, ConnectionError, RuntimeError}

H_passed == <<Header(H_Content_Type, "application/pdf"),
              Header(<<"C","o","n","t","e","n","t","-","L","e","n","g","t","h">>, "3"),
              Header(<<"C","O","N","T","E","N","T","-","E","N","C","O","D","I","N","G">>, "gzip"),
              Header(<<"x","-","f","r","a","m","e","-","o","p","t","i","o","n","s">>, "ALLOWALL"),
              Header(<<"E","T","a","g">>, "abc")>>
UpstreamHeaders == {<<>>, H_passed}

\* The bodies iter_content(chunk_size) can deliver: every chunk is non-empty
\* and at most chunk_size long.
DocumentChunks ==
    UNION {[1..n -> {chunk_size, 1}] : n \in 0..MaxChunks}
DocumentBodies ==
    {[i \in DOMAIN c |-> Chunk(i, c[i])] : c \in DocumentChunks}

Answer(status, body, headers, chunks) ==
    [kind |-> "response", status |-> status, body |-> body, headers |-> headers,
     chunks |-> chunks, exc |-> NoExc]
Raise(e) ==
    [kind |-> "raise", status |-> 0, body |-> <<>>, headers |-> <<>>,
     chunks |-> <<>>, exc |-> e]
NoAnswer == [kind |-> "", status |-> 0, body |-> <<>>, headers |-> <<>>,
             chunks |-> <<>>, exc |-> NoExc]

MetadataAnswers ==
    {Answer(st, b, <<>>, <<>>) : st \in UpstreamStatuses, b \in UpstreamBodies}
    \cup {Raise(e) : e \in UpstreamExceptions}
DocumentAnswers ==
    {Answer(200, <<>>, h, c) : h \in UpstreamHeaders, c \in DocumentBodies}
    \cup {Answer(st, b, <<>>, <<>>) :
            st \in UpstreamStatuses \ {200}, b \in {B_empty, B_detail}}
    \cup {Raise(e) : e \in UpstreamExceptions}

\* Names asked of the static routes. The path converter of the routes hands
\* over no empty name and none that starts with a slash; names under js/ go
\* to serve_js.
StaticFilenames ==
    {F_index, F_style, F_logo, F_dotted, F_notes, F_server, F_env, F_secret, F_passwd,
     DotDot, <<"j","s">>,
     <<"m","i","s","s","i","n","g",".","c","s","s">>,
     <<"c","s","s","/",".",".","/","s","t","y","l","e",".","c","s","s">>,
     <<"c","s","s","/",".",".","/",".",".","/","s","e","c","r","e","t",".","h","t","m","l">>,
     <<".","/","s","t","y","l","e",".","c","s","s">>}
JsFilenames ==
    {<<"a","p","p",".","j","s">>, <<"a","p","p",".","j","s",".","m","a","p">>, <<"m","i","s","s","i","n","g",".","j","s">>,
     <<".",".","/","i","n","d","e","x",".","h","t","m","l">>, <<".",".","/","s","e","r","v","e","r",".","p","y">>, DotDot,
     <<"x","/",".",".","/","a","p","p",".","j","s">>}
StaticReq(route, filename) == Req(route, filename, NoQuery, NoArg, NoArg, "")

(***************************************************************************)
(* The gateway: one inbound request from arrival to its response           *)
(***************************************************************************)
NoRet == [done |-> FALSE, v |-> 0]
\* One request at a time: no other thread holds a request.
NoFrame == [pc |-> "none"]
OneThread == thread = 1 /\ parked = NoFrame
PureIdle == fn = "" /\ arg = <<>> /\ ret = NoRet

Init ==
    /\ COMPANIES_HOUSE_API_KEY \in {NoKey, "KEY"}
    /\ debug_mode \in BOOLEAN
    /\ pc = "idle"
    /\ req = NoReq
    /\ checks = {}
    /\ outbound = <<>>
    /\ upstream = NoAnswer
    /\ resp = NoResp
    /\ stream = NoStream
    /\ OneThread
    /\ PureIdle

\* A handler runs on request r with effect eff: it returns a response (which
\* then passes through add_security_headers) or blocks in requests.get.
Serve(r, eff) ==
    /\ req' = r
    /\ checks' = eff.checks
    /\ IF eff.act = "respond"
       THEN /\ resp' = add_security_headers(eff.resp)
            /\ outbound' = <<>>
            /\ pc' = "done"
       ELSE /\ resp' = NoResp
            /\ outbound' = <<eff.call>>
            /\ pc' = "upstream"
    /\ UNCHANGED <<COMPANIES_HOUSE_API_KEY, debug_mode, thread, parked, upstream, stream, fn, arg, ret>>

CompanyProfile ==
    /\ pc = "idle"
    /\ \E r \in IdentReqs("get_company_profile", CompanyNumberInputs) :
         Serve(r, get_company_profile(COMPANIES_HOUSE_API_KEY, r))
CompanyPscs ==
    /\ pc = "idle"
    /\ \E r \in PagedReqs("get_company_pscs", CompanyNumberInputs) :
         Serve(r, get_company_pscs(COMPANIES_HOUSE_API_KEY, r))
FilingHistory ==
    /\ pc = "idle"
    /\ \E r \in PagedReqs("get_filing_history", CompanyNumberInputs) :
         Serve(r, get_filing_history(COMPANIES_HOUSE_API_KEY, r))
CompanyCharges ==
    /\ pc = "idle"
    /\ \E r \in PagedReqs("get_company_charges", CompanyNumberInputs) :
         Serve(r, get_company_charges(COMPANIES_HOUSE_API_KEY, r))
Officers ==
    /\ pc = "idle"
    /\ \E r \in PagedReqs("get_officers", CompanyNumberInputs) :
         Serve(r, get_officers(COMPANIES_HOUSE_API_KEY, r))
SearchCompanies ==
    /\ pc = "idle"
    /\ \E r \in SearchReqs("search_companies") :
         Serve(r, search_companies(COMPANIES_HOUSE_API_KEY, r))
SearchOfficers ==
    /\ pc = "idle"
    /\ \E r \in SearchReqs("search_officers") :
         Serve(r, search_officers(COMPANIES_HOUSE_API_KEY, r))
OfficerAppointments ==
    /\ pc = "idle"
    /\ \E r \in PagedReqs("get_officer_appointments", IdInputs) :
         Serve(r, get_officer_appointments(COMPANIES_HOUSE_API_KEY, r))
DocumentContent ==
    /\ pc = "idle"
    /\ \E r \in DocumentReqs :
         Serve(r, get_document_content(COMPANIES_HOUSE_API_KEY, r))
HealthCheck ==
    /\ pc = "idle"
    /\ Serve(Req("health_check", <<>>, NoQuery, NoArg, NoArg, ""),
             [act |-> "respond", resp |-> Plain(200, HealthBody), call |-> NoCall,
              checks |-> {}])

\* What Flask makes of the outcome of a view function. An exception that no
\* handler catches becomes Flask's 500 page, which passes through the
\* after_request hook like every response of the application; under
\* app.run(debug=True) it is re-raised instead and answered by the debugger
\* of the development server, outside the application and its hooks.
DebuggerPage == Plain(500, <<"<!doctype html>", "Traceback">>)
full_dispatch_request(out, debug) ==
    IF out.raised = NoExc THEN add_security_headers(out.resp)
    ELSE IF debug THEN DebuggerPage
    ELSE add_security_headers(Plain(500, PageBody(500)))

ServeLocal(r, out) ==
    /\ req' = r
    /\ checks' = {}
    /\ outbound' = <<>>
    /\ resp' = full_dispatch_request(out, debug_mode)
    /\ pc' = "done"
    /\ UNCHANGED <<COMPANIES_HOUSE_API_KEY, debug_mode, thread, parked, upstream, stream, fn, arg, ret>>

Index ==
    /\ pc = "idle"
    /\ ServeLocal(StaticReq("index", <<>>), index)
ServeStatic ==
    /\ pc = "idle"
    /\ \E filename \in StaticFilenames :
         ServeLocal(StaticReq("serve_static", filename), serve_static(filename))
ServeJs ==
    /\ pc = "idle"
    /\ \E filename \in JsFilenames :
         ServeLocal(StaticReq("serve_js", filename), serve_js(filename))
\* A request no rule matches, here one with a method other than GET: Flask
\* answers it itself, through the same hook.
MethodNotAllowed ==
    /\ pc = "idle"
    /\ ServeLocal(StaticReq("no rule", <<>>), Returns(Plain(405, PageBody(405))))
StaticRoutes == {"index", "serve_static", "serve_js"}

MetadataRoutes ==
    {"get_company_profile", "get_company_pscs", "get_filing_history",
     "get_company_charges", "get_officers", "search_companies", "search_officers",
     "get_officer_appointments"}
CompanyRoutes ==
    {"get_company_profile", "get_company_pscs", "get_filing_history",
     "get_company_charges", "get_officers"}
SearchRoutes == {"search_companies", "search_officers"}

\* A plausible slip: a call that timed out is issued once more.
calls_after_retrying(up, call) ==
    IF up.kind = "raise" /\ "Timeout" \in up.exc.bases THEN <<call>> ELSE <<>>

\* The calls a handler issues after requests.get has returned or raised: the
\* status branches and the except clauses all return, none calls again.
calls_after(up, call) == <<>>

\* requests.get returns or raises inside ch_api_request, which runs to its end.
MetadataReturn ==
    /\ pc = "upstream"
    /\ req.route \in MetadataRoutes
    /\ \E up \in MetadataAnswers, je \in JSONDecodeErrors :
         /\ upstream' = up
         /\ resp' = add_security_headers(ch_api_request_resume(up, je))
         /\ outbound' = outbound \o calls_after(up, outbound[1])
    /\ pc' = "done"
    /\ UNCHANGED <<COMPANIES_HOUSE_API_KEY, debug_mode, thread, parked, req, checks, stream, fn, arg, ret>>

\* requests.get returns or raises inside get_document_content, which runs to
\* its end; with a 200 the body is left to generate().
DocumentReturn ==
    /\ pc = "upstream"
    /\ req.route = "get_document_content"
    /\ \E up \in DocumentAnswers :
         LET r == get_document_content_resume(up)
         IN  /\ upstream' = up
             /\ resp' = add_security_headers(r)
             /\ pc' = IF r.streamed THEN "streaming" ELSE "done"
             /\ stream' = IF r.streamed THEN OpenStream(up.chunks) ELSE stream
             /\ outbound' = outbound \o calls_after(up, outbound[1])
    /\ UNCHANGED <<COMPANIES_HOUSE_API_KEY, debug_mode, thread, parked, req, checks, fn, arg, ret>>

\* The server iterates generate(). An exception of iter_content is caught by
\* nothing in generate(): the response, already returned, is what it was.
StreamFailures == {NoExc, ReadTimeout, ConnectionError}
Generate ==
    /\ pc = "streaming"
    /\ \E e \in StreamFailures : stream' = generate_next(stream, e)
    /\ pc' = IF stream'.state = "open" THEN "streaming" ELSE "done"
    /\ UNCHANGED <<COMPANIES_HOUSE_API_KEY, debug_mode, thread, parked, req, checks, outbound, upstream, resp,
                   fn, arg, ret>>

\* The caller goes away while the document is streamed; the server finds
\* out when it writes to the connection and closes the response.
ClientDisconnect ==
    /\ pc = "streaming"
    /\ stream' = [generator_close(stream) EXCEPT !.disconnected = TRUE]
    /\ pc' = IF stream'.state = "open" THEN "streaming" ELSE "done"
    /\ UNCHANGED <<COMPANIES_HOUSE_API_KEY, debug_mode, thread, parked, req, checks, outbound, upstream,
                   resp, fn, arg, ret>>

Next ==
    \/ CompanyProfile
    \/ CompanyPscs
    \/ FilingHistory
    \/ CompanyCharges
    \/ Officers
    \/ SearchCompanies
    \/ SearchOfficers
    \/ OfficerAppointments
    \/ DocumentContent
    \/ HealthCheck
    \/ Index
    \/ ServeStatic
    \/ ServeJs
    \/ MethodNotAllowed
    \/ MetadataReturn
    \/ DocumentReturn
    \/ Generate
    \/ ClientDisconnect

Spec == Init /\ [][Next]_vars

(***************************************************************************)
(* Documents about as large as the ceiling.  generate() is taken up at the *)
(* point where the first chunks of such a document have been relayed, all  *)
(* of them well below the ceiling, and followed from there to its end.     *)
(***************************************************************************)
MaxOdd == 1
StartsBefore == 2

RECURSIVE SumOver(_, _)
SumOver(lens, chunks) ==
    IF lens = {} THEN 0
    ELSE LET l == CHOOSE x \in lens : TRUE
         IN  l * Cardinality({i \in DOMAIN chunks : chunks[i].len = l})
             + SumOver(lens \ {l}, chunks)
\* The sum of len(chunk) over the chunks, as downloaded += len(chunk) adds it up
Bytes(chunks) == SumOver({chunks[i].len : i \in DOMAIN chunks}, chunks)

\* max_size is a whole number of full-sized chunks
CeilingChunks == max_size \div chunk_size
SixtyMiB == 60 * 1024 * 1024
Full(n) == [i \in 1..n |-> chunk_size]
\* Chunks shorter than chunk_size, as iter_content hands them over when the
\* upstream sends its body in pieces of its own.
OddSizes == {1, chunk_size - 1}
OddRuns == UNION {[1..n -> OddSizes] : n \in 0..MaxOdd}
LargeChunks ==
    {lead \o Full(n) \o tail :
        lead \in OddRuns, tail \in OddRuns, n \in {CeilingChunks - 1, CeilingChunks}}
    \cup {Full(SixtyMiB \div chunk_size)}
LargeBodies == {[i \in DOMAIN c |-> Chunk(i, c[i])] : c \in LargeChunks}

\* generate() after k turns in which iter_content raised nothing and the
\* total stayed within max_size
Relaying(chunks, k) ==
    [OpenStream(chunks) EXCEPT !.pending = SubSeq(chunks, k + 1, Len(chunks)),
                               !.downloaded = Bytes(SubSeq(chunks, 1, k)),
                               !.emitted = SubSeq(chunks, 1, k)]

InitStream ==
    /\ COMPANIES_HOUSE_API_KEY = "KEY"
    /\ debug_mode = FALSE
    /\ OneThread
    /\ PureIdle
    /\ pc = "streaming"
    /\ \E r \in {Req("get_document_content", <<"d","o","c","1">>, NoQuery, NoArg, NoArg, "*/*")},
          chunks \in LargeBodies :
         LET up == Answer(200, <<>>, <<>>, chunks)
             eff == get_document_content(COMPANIES_HOUSE_API_KEY, r)
         IN  /\ req = r
             /\ checks = eff.checks
             /\ outbound = <<eff.call>>
             /\ upstream = up
             /\ resp = add_security_headers(get_document_content_resume(up))
             /\ stream = Relaying(chunks, CeilingChunks - StartsBefore - MaxOdd)

NextStream ==
    \/ Generate
    \/ ClientDisconnect

SpecStream == InitStream /\ [][NextStream]_vars

(***************************************************************************)
(* Two requests at once.  The development server started by app.run        *)
(* handles every connection in a thread of its own.  The variables of the  *)
(* gateway describe the request of the thread that is scheduled, parked    *)
(* the request of the other one; a switch can fall between any two steps.  *)
(* The module globals are shared, the locals of a view function and of     *)
(* generate() belong to the call.                                          *)
(***************************************************************************)
Frame ==
    [pc |-> pc, req |-> req, checks |-> checks, outbound |-> outbound,
     upstream |-> upstream, resp |-> resp, stream |-> stream]
IdleFrame ==
    [pc |-> "idle", req |-> NoReq, checks |-> {}, outbound |-> <<>>,
     upstream |-> NoAnswer, resp |-> NoResp, stream |-> NoStream]

\* A plausible slip: downloaded kept in a module global, one counter for
\* every generate() that is running.
frame_locals_shared_counter(own, scheduled) ==
    IF own.stream.state = "open" /\ scheduled.stream.state # "none"
    THEN [own EXCEPT !.stream.downloaded = scheduled.stream.downloaded]
    ELSE own

\* What a thread finds when it is scheduled again: max_size, downloaded and
\* response are locals of its own call, and are what it left.
frame_locals(own, scheduled) == own

\* get_document_content at the point where InitStream takes generate() up
DocumentSession(key, r, chunks) ==
    LET up == Answer(200, <<>>, <<>>, chunks)
        eff == get_document_content(key, r)
    IN  [pc |-> "streaming", req |-> r, checks |-> eff.checks,
         outbound |-> <<eff.call>>, upstream |-> up,
         resp |-> add_security_headers(get_document_content_resume(up)),
         stream |-> Relaying(chunks, CeilingChunks - StartsBefore - MaxOdd)]

\* A document of exactly max_size bytes, one a byte longer, and the 60 MiB one
OneByteOver == Full(CeilingChunks) \o <<1>>
ConcurrentChunks == {Full(CeilingChunks), OneByteOver, Full(SixtyMiB \div chunk_size)}
Body(c) == [i \in DOMAIN c |-> Chunk(i, c[i])]
DocumentReq(id) == Req("get_document_content", id, NoQuery, NoArg, NoArg, "*/*")

InitConcurrent ==
    /\ COMPANIES_HOUSE_API_KEY = "KEY"
    /\ debug_mode = FALSE
    /\ PureIdle
    /\ thread = 1
    /\ LET f == DocumentSession(COMPANIES_HOUSE_API_KEY,
                                DocumentReq(<<"d","o","c","1">>), Body(OneByteOver))
       IN  /\ pc = f.pc /\ req = f.req /\ checks = f.checks
           /\ outbound = f.outbound /\ upstream = f.upstream
           /\ resp = f.resp /\ stream = f.stream
    /\ parked \in {IdleFrame}
                   \cup {DocumentSession(COMPANIES_HOUSE_API_KEY,
                                         DocumentReq(<<"d","o","c","2">>), Body(c)) :
                            c \in ConcurrentChunks}

\* The scheduler takes the running thread off and puts the other one on.
Switch ==
    /\ parked # NoFrame
    /\ parked' = Frame
    /\ LET f == frame_locals(parked, Frame)
       IN  /\ pc' = f.pc /\ req' = f.req /\ checks' = f.checks
           /\ outbound' = f.outbound /\ upstream' = f.upstream
           /\ resp' = f.resp /\ stream' = f.stream
    /\ thread' = 3 - thread
    /\ UNCHANGED <<COMPANIES_HOUSE_API_KEY, debug_mode, fn, arg, ret>>

NextConcurrent ==
    \/ HealthCheck
    \/ CompanyProfile
    \/ MetadataReturn
    \/ Generate
    \/ ClientDisconnect
    \/ Switch

SpecConcurrent == InitConcurrent /\ [][NextConcurrent]_vars

(***************************************************************************)
(* The pure functions on their own: an argument is drawn, the function is  *)
(* applied to it.                                                          *)
(***************************************************************************)
MaxIntLen == 4
IntAlphabet == {"0", "1", "9", "-", "_", " ", "x"}
IntStrings ==
    UNION {[1..n -> IntAlphabet] : n \in 0..MaxIntLen}
    \cup {<<"1","0","0","0","0">>, <<"1","0","0","0","1">>, <<"9","9","9","9","9">>, <<"-","1","0","0","0","1">>, <<"0","1","0","0","0">>, <<" ","1","0","0","1"," ">>, <<"1","_","0","_","0","_","1">>, <<"+","1","0","0","0">>}
IntValues ==
    {NoneVal} \cup {IntVal(n) : n \in {-1, 0, 1, 20, 100, 1000, 1001, 10000, 10001}}
    \cup {StrVal(x) : x \in IntStrings}

CandidateIds ==
    {Rep(c, n) : c \in {"A", "a", "7"}, n \in 5..MaxCompanyLen}
    \cup {Rep(LongS, 8), <<"a", "-", "_", "Z">>}
CandidatePaths ==
    {p \o id \o x \o t :
        p \in {P_company, upper(P_company), P_officers, P_document},
        id \in CandidateIds,
        x \in {<<>>, S_psc, S_filing_history, S_charges, S_officers, S_appointments,
               S_content, upper(S_charges), S_charges \o S_charges},
        t \in {<<>>, <<NL>>, <<"/">>, <<"x">>}}
    \cup {P_officers \o Rep("a", n) \o S_appointments : n \in {0, 1, MaxIdLen, MaxIdLen + 1}}
    \cup {P_document \o Rep("a", n) \o S_content : n \in {0, 1, MaxIdLen, MaxIdLen + 1}}
    \cup {p \o t : p \in {P_search_companies, P_search_officers,
                          upper(P_search_companies), P_search_companies \o S_charges},
                   t \in {<<>>, <<NL>>, <<"/">>, <<"x">>}}

GatewayIdle ==
    /\ COMPANIES_HOUSE_API_KEY = "KEY"
    /\ debug_mode = FALSE
    /\ req = NoReq /\ checks = {} /\ outbound = <<>> /\ upstream = NoAnswer
    /\ resp = NoResp /\ stream = NoStream
    /\ OneThread

(***************************************************************************)
(* linuk-tester/scripts/generate_questions.py: generate_questions_batch    *)
(*                                                                         *)
(* The text of the response is a sequence of tokens as above; a Markdown   *)
(* fence is one token.                                                     *)
(***************************************************************************)
\* three backticks followed by json, and three backticks
FenceJson == "(3 backticks)json"
Fence == "(3 backticks)"
EmptyList == <<"[", "]">>
ApiError == Exc("Exception", {})
KeyboardInterrupt ==
    [cls |-> "KeyboardInterrupt", bases |-> {"KeyboardInterrupt", "BaseException"}]

\* json.loads(s): ok = FALSE is the JSONDecodeError it raises
json_loads(s) == response_json(s)

\* A plausible slip: the closing fence is left in place.
generate_questions_batch_keeping_fence(client) ==
    IF client.kind = "raise"
    THEN IF "Exception" \in client.exc.bases THEN Returned(EmptyList)
         ELSE Raised(client.exc)
    ELSE IF client.kind = "none" THEN Returned(EmptyList)
    ELSE LET text == strip(client.text)
             opened == IF text # <<>> /\ text[1] = FenceJson THEN Tail(text) ELSE text
             questions == json_loads(strip(opened))
         IN  IF questions.ok THEN Returned(questions.value) ELSE Returned(EmptyList)

\* generate_questions_batch(client, ...): client is what
\* client.models.generate_content does, raise or return a response whose
\* text is a string or None. except Exception lets through what does not
\* derive from Exception.
generate_questions_batch(client) ==
    IF client.kind = "raise"
    THEN IF "Exception" \in client.exc.bases THEN Returned(EmptyList)
         ELSE Raised(client.exc)
    ELSE IF client.kind = "none" THEN Returned(EmptyList)
    ELSE LET text == strip(client.text)
             opened == IF text # <<>> /\ text[1] = FenceJson THEN Tail(text) ELSE text
             res_text == IF opened # <<>> /\ opened[Len(opened)] = Fence
                         THEN SubSeq(opened, 1, Len(opened) - 1) ELSE opened
             questions == json_loads(strip(res_text))
         IN  IF questions.ok THEN Returned(questions.value) ELSE Returned(EmptyList)

\* What the client can do
PadInputs == {<<>>, <<" ">>, <<NL>>, <<FormFeed>>}
JsonTexts ==
    {EmptyList, <<"[", "1", "]">>, <<"[", " ", "{", "'company_name'", ":", "'ACME LTD'", "}", NL, "]">>,
     <<"{", "'company_name'", ":", "'ACME LTD'", "}">>, <<"1">>,
     <<>>, <<"[", "1">>, <<"[", "1", ",", "]">>, <<"Here are the questions:", "[", "1", "]">>}
ResponseTexts ==
    {a \o open \o b \o t \o b \o close \o c :
        a \in PadInputs, b \in PadInputs, c \in PadInputs,
        open \in {<<>>, <<FenceJson>>, <<Fence>>}, close \in {<<>>, <<Fence>>},
        t \in JsonTexts}
ClientText(t) == [kind |-> "text", text |-> t, exc |-> NoExc]
ClientOutcomes ==
    {ClientText(t) : t \in ResponseTexts}
    \cup {[kind |-> "none", text |-> <<>>, exc |-> NoExc]}
    \cup {[kind |-> "raise", text |-> <<>>, exc |-> e] :
            e \in {ApiError, ConnectionError, KeyboardInterrupt}}

\* Arguments of is_safe_path: what the routes hand over, and names no
\* route hands over (empty, or starting with a slash).
BasePaths == {<<".">>, <<"j","s">>}
CandidateFilenames ==
    StaticFilenames \cup JsFilenames
    \cup {<<>>, <<"/","i","n","d","e","x",".","h","t","m","l">>, <<"/","e","t","c","/","p","a","s","s","w","d">>, F_js_app}

InitPure ==
    /\ GatewayIdle
    /\ pc = "call"
    /\ ret = NoRet
    /\ \/ /\ fn = "validate_endpoint"
          /\ arg \in {[endpoint |-> p] : p \in CandidatePaths}
       \/ /\ fn = "generate_questions_batch"
          /\ arg \in {[client |-> c] : c \in ClientOutcomes}
       \/ /\ fn = "is_safe_path"
          /\ arg \in {[base_path |-> b, path |-> p, allowed_extensions |-> a] :
                        b \in BasePaths, p \in CandidateFilenames,
                        a \in {ALLOWED_EXTENSIONS, {<<".","j","s">>}}}
       \/ /\ fn = "sanitize_integer_param"
          /\ arg \in {[value |-> v, default |-> c.default, min_val |-> c.min_val,
                       max_val |-> c.max_val] : v \in IntValues, c \in SanitizeConfigs}

Call_validate_endpoint ==
    /\ pc = "call" /\ fn = "validate_endpoint"
    /\ ret' = [done |-> TRUE, v |-> validate_endpoint(arg.endpoint)]
    /\ pc' = "returned"
    /\ UNCHANGED <<COMPANIES_HOUSE_API_KEY, debug_mode, thread, parked, req, checks, outbound, upstream, resp,
                   stream, fn, arg>>

Call_sanitize_integer_param ==
    /\ pc = "call" /\ fn = "sanitize_integer_param"
    /\ ret' = [done |-> TRUE,
               v |-> sanitize_integer_param(arg.value, arg.default, arg.min_val,
                                            arg.max_val)]
    /\ pc' = "returned"
    /\ UNCHANGED <<COMPANIES_HOUSE_API_KEY, debug_mode, thread, parked, req, checks, outbound, upstream, resp,
                   stream, fn, arg>>

Call_is_safe_path ==
    /\ pc = "call" /\ fn = "is_safe_path"
    /\ ret' = [done |-> TRUE,
               v |-> is_safe_path(arg.base_path, arg.path, arg.allowed_extensions)]
    /\ pc' = "returned"
    /\ UNCHANGED <<COMPANIES_HOUSE_API_KEY, debug_mode, thread, parked, req, checks, outbound, upstream, resp,
                   stream, fn, arg>>

Call_generate_questions_batch ==
    /\ pc = "call" /\ fn = "generate_questions_batch"
    /\ ret' = [done |-> TRUE, v |-> generate_questions_batch(arg.client)]
    /\ pc' = "returned"
    /\ UNCHANGED <<COMPANIES_HOUSE_API_KEY, debug_mode, thread, parked, req, checks, outbound, upstream, resp,
                   stream, fn, arg>>

NextPure ==
    \/ Call_generate_questions_batch
    \/ Call_is_safe_path
    \/ Call_validate_endpoint
    \/ Call_sanitize_integer_param

SpecPure == InitPure /\ [][NextPure]_vars

(***************************************************************************)
(* Properties                                                              *)
(***************************************************************************)
\* The shapes the specification permits, matched exactly (no character may
\* follow the shape).
ExactMatch(p, s) ==
    \E n \in 0..Len(s) :
        /\ n >= p.lo /\ n <= p.hi
        /\ Len(s) = Len(p.prefix) + n + Len(p.suffix)
        /\ s = p.prefix \o SubSeq(s, Len(p.prefix) + 1, Len(p.prefix) + n) \o p.suffix
        /\ \A i \in (Len(p.prefix) + 1)..(Len(p.prefix) + n) : s[i] \in p.class
PermittedShapes ==
    {Pat(P_company, UpperAlnum, 6, 8, x) :
        x \in {<<>>, S_psc, S_filing_history, S_charges, S_officers}}
    \cup {Pat(P_search_companies, {}, 0, 0, <<>>), Pat(P_search_officers, {}, 0, 0, <<>>),
          Pat(P_officers, IdChars, 1, 100, S_appointments),
          Pat(P_document, IdChars, 1, 100, S_content)}
HasPermittedShape(path) == \E p \in PermittedShapes : ExactMatch(p, path)

\* C1: validate_endpoint(P) is true exactly when P has one of the nine permitted
\* shapes (company profile, PSC list, filing history, charges, officers with a
\* 6-8 character company number; the two searches; officer appointments;
\* document content), and false for every other path.
C1_ValidateIffPermittedShape ==
    (fn = "validate_endpoint" /\ ret.done) =>
        (ret.v <=> HasPermittedShape(arg.endpoint))

\* C2: on every API route but /api/health, a request goes out to the upstream
\* only after the parameter sanitizer accepted the identifiers or query and
\* validate_endpoint accepted the substituted upstream path.
C2_OutboundOnlyAfterBothChecks ==
    outbound # <<>> => {"param", "endpoint"} \subseteq checks

\* Letters and digits; the long s is a letter too.
Alphanumeric == Range(UpperLetters) \cup Range(LowerLetters) \cup Digits \cup {LongS}
ValidCompanyNumber(id) ==
    Len(id) \in 6..8 /\ \A i \in DOMAIN id : id[i] \in Alphanumeric
ValidId(id) ==
    Len(id) \in 1..100 /\ \A i \in DOMAIN id : id[i] \in IdChars
Handled == pc # "idle" /\ fn = ""

\* C3: on the five /api/company/{companyNumber}... routes, with a credential
\* configured, a company number of 6, 7 or 8 alphanumeric characters is
\* accepted: no 400 is returned and the upstream call is made.
C3_BoundaryCompanyNumberAccepted ==
    (/\ Handled
     /\ req.route \in CompanyRoutes
     /\ COMPANIES_HOUSE_API_KEY # NoKey
     /\ ValidCompanyNumber(req.ident))
    => (resp.status # 400 /\ outbound # <<>>)

\* C4: an identifier that does not match its fixed shape (company number not
\* 6-8 alphanumeric, officer or document id not 1-100 of [A-Za-z0-9_-], any
\* disallowed character such as '.' or a trailing newline) is answered 400 and
\* no outbound request is issued.  Stated here for the requests served with a
\* credential configured.
C4_MalformedIdentifierRejected ==
    (/\ Handled
     /\ COMPANIES_HOUSE_API_KEY # NoKey
     /\ \/ req.route \in CompanyRoutes /\ ~ValidCompanyNumber(req.ident)
        \/ /\ req.route \in {"get_officer_appointments", "get_document_content"}
           /\ ~ValidId(req.ident))
    => (resp.status = 400 /\ outbound = <<>>)

Clamp(n, lo, hi) == IF n < lo THEN lo ELSE IF n > hi THEN hi ELSE n
\* No digit anywhere: None, the empty string, letters, signs, blanks.
NonNumeric(value) ==
    \/ value.t = "none"
    \/ value.t = "str" /\ \A i \in DOMAIN value.s : value.s[i] \notin Digits
\* An int, or a string of decimal digits behind an optional minus sign.
PlainDecimal(value) ==
    \/ value.t = "int"
    \/ /\ value.t = "str"
       /\ LET d == IF value.s # <<>> /\ value.s[1] = "-"
                   THEN SubSeq(value.s, 2, Len(value.s)) ELSE value.s
          IN  d # <<>> /\ \A i \in DOMAIN d : d[i] \in Digits
PlainValue(value) ==
    IF value.t = "int" THEN value.v
    ELSE IF value.s[1] = "-" THEN 0 - DecVal(SubSeq(value.s, 2, Len(value.s)))
    ELSE DecVal(value.s)

\* C5: for every input and every (default, min, max) the routes use,
\* sanitize_integer_param returns a value within [min, max]; an input that does
\* not parse (non-numeric, empty, None) returns the default, and one that
\* parses returns the parsed value clamped to [min, max].
C5_SanitizeWithinRange ==
    (fn = "sanitize_integer_param" /\ ret.done) =>
        /\ ret.v >= arg.min_val /\ ret.v <= arg.max_val
        /\ NonNumeric(arg.value) => ret.v = arg.default
        /\ PlainDecimal(arg.value) =>
              ret.v = Clamp(PlainValue(arg.value), arg.min_val, arg.max_val)
        /\ ~PyInt(arg.value).ok => ret.v = arg.default
        /\ PyInt(arg.value).ok =>
              ret.v = Clamp(PyInt(arg.value).v, arg.min_val, arg.max_val)

\* C5 witness: a numeral above the maximum came back as the maximum.
C5_Witness ==
    /\ fn = "sanitize_integer_param" /\ ret.done
    /\ arg.value.t = "str" /\ PlainDecimal(arg.value)
    /\ PlainValue(arg.value) > arg.max_val
    /\ ret.v = arg.max_val

RECURSIVE TrimLeft(_)
TrimLeft(s) == IF s # <<>> /\ Head(s) \in Whitespace THEN TrimLeft(Tail(s)) ELSE s
RECURSIVE TrimRight(_)
TrimRight(s) ==
    IF s # <<>> /\ s[Len(s)] \in Whitespace
    THEN TrimRight(SubSeq(s, 1, Len(s) - 1)) ELSE s
\* The query of the request after trimming; a missing q is the empty query.
Trimmed == TrimRight(TrimLeft(IF req.q.present THEN req.q.s ELSE <<>>))
QueryAcceptable == Trimmed # <<>> /\ Len(Trimmed) <= 200
SearchRejections ==
    /\ Trimmed = <<>> =>
          resp.status = 400 /\ resp.body = ErrorBody("'Search query is required'")
    /\ Len(Trimmed) > 200 => resp.status = 400
    /\ ~QueryAcceptable => outbound = <<>>
    /\ outbound # <<>> => outbound[1].params.q = Query(Trimmed)

\* C6 as stated: on the two search routes the upstream call is made if and only
\* if the trimmed query is non-empty and at most 200 characters long; a missing
\* or blank q yields 400 'Search query is required', an over-long q yields 400,
\* neither issues an outbound request; the trimmed query is what is forwarded.
C6_SearchCallIffQueryValid ==
    (Handled /\ req.route \in SearchRoutes) =>
        /\ outbound # <<>> <=> QueryAcceptable
        /\ SearchRejections

\* C6 amended: the same, the upstream call being made if and only if the
\* trimmed query is acceptable and a credential is configured.
C6_SearchCallIffQueryValidAndKey ==
    (Handled /\ req.route \in SearchRoutes) =>
        /\ outbound # <<>> <=> (QueryAcceptable /\ COMPANIES_HOUSE_API_KEY # NoKey)
        /\ SearchRejections

\* C6 witness: a padded query of exactly 200 characters after trimming was
\* forwarded upstream.
C6_Witness ==
    /\ Handled /\ req.route \in SearchRoutes
    /\ Len(Trimmed) = 200 /\ Len(req.q.s) > 200
    /\ outbound # <<>>

IsSuccess(status) == status >= 200 /\ status <= 299
\* The same body: the same text, or JSON texts of the same value.
SameBody(a, b) ==
    \/ a = b
    \/ /\ response_json(a).ok /\ response_json(b).ok
       /\ response_json(a).value = response_json(b).value
MetadataAnswered ==
    /\ pc = "done" /\ req.route \in MetadataRoutes /\ upstream.kind = "response"

\* C7: for a validated metadata request, whenever the upstream answers with a
\* 2xx status the gateway's response has the same status and the same body,
\* whatever the 2xx code and whatever the body (empty or non-JSON included).
C7_SuccessPassedThrough ==
    (MetadataAnswered /\ IsSuccess(upstream.status)) =>
        (resp.status = upstream.status /\ SameBody(resp.body, upstream.body))

\* C8: an upstream 401 is answered 401 with a fixed generic message and an
\* upstream 404 is answered 404 with a fixed generic message, whatever the
\* upstream body was.
C8_AuthFailureAndNotFoundGeneric ==
    MetadataAnswered =>
        /\ upstream.status = 401 =>
              resp.status = 401 /\ resp.body = ErrorBody("'Authentication failed'")
        /\ upstream.status = 404 =>
              resp.status = 404 /\ resp.body = ErrorBody("'Resource not found'")

\* C8 witness: the upstream answered 401 with a body of its own.
C8_Witness ==
    /\ MetadataAnswered /\ upstream.status = 401 /\ upstream.body = B_detail
    /\ resp.status = 401

GenericMessages ==
    {"'Authentication failed'", "'Resource not found'", "'Request timeout'",
     "'External service error'", "'Internal server error'",
     "'Server configuration error'", "'Invalid endpoint requested'",
     "'Document not available'"}
GenericBodies == {ErrorBody(m) : m \in GenericMessages}

\* C9: on every failure path (any non-2xx upstream status, metadata and
\* document routes) the caller-visible body is one of a fixed set of strings,
\* never the upstream body, and a status other than 401 and 404 is passed on.
C9_FailureBodiesGeneric ==
    (pc = "done" /\ upstream.kind = "response" /\ ~IsSuccess(upstream.status)) =>
        /\ resp.body \in GenericBodies
        /\ upstream.status \notin {401, 404} => resp.status = upstream.status

\* The status the error taxonomy gives an exception.
MappedStatus(e) ==
    IF "Timeout" \in e.bases THEN 504
    ELSE IF "RequestException" \in e.bases THEN 502 ELSE 500
FailureMapped(e) ==
    /\ resp.status = MappedStatus(e)
    /\ resp.status = 500 => resp.body = ErrorBody("'Internal server error'")

\* C10 as stated: a timeout results in 504, any other transport failure in 502,
\* any other fault in a generic 500, whenever the failure occurs, a failure
\* while the document body is streamed included.
C10_FailuresMappedAlways ==
    /\ (pc = "done" /\ upstream.kind = "raise") => FailureMapped(upstream.exc)
    /\ (pc = "done" /\ stream.state = "aborted") => FailureMapped(stream.failure)

\* C10 amended: a failure of the outbound call itself is mapped so (504 for a
\* timeout, also one that is a connection error too; 502 for another transport
\* failure; generic 500 otherwise); a failure while the body is streamed leaves
\* the 200 response already returned and ends the stream.
C10_CallFailuresMapped ==
    /\ (pc = "done" /\ upstream.kind = "raise") => FailureMapped(upstream.exc)
    /\ stream.state = "aborted" => (resp.status = 200 /\ resp.streamed)

\* C10 witness: a connect timeout, which is a connection error too, gave 504.
C10_Witness ==
    /\ pc = "done" /\ upstream.kind = "raise" /\ upstream.exc = ConnectTimeout
    /\ resp.status = 504


ApiRoutes == MetadataRoutes \cup {"get_document_content"}

\* C11: when the credential is missing from the configuration, a request to an
\* API route that gets as far as needing it (it is not turned away as
\* malformed with a 400) is answered with status 401.
C11_MissingCredentialAnswered401 ==
    (/\ Handled /\ pc = "done"
     /\ COMPANIES_HOUSE_API_KEY = NoKey
     /\ req.route \in ApiRoutes
     /\ resp.status # 400)
    => resp.status = 401


\* The answer every static request for a file that is not there receives.
MissingFileResponse == add_security_headers(FileNotFound)
Healthy == add_security_headers(Plain(200, HealthBody))
\* What a static route answers, from the request and the files alone.
ServedFile(directory, filename) ==
    add_security_headers(Plain(200, FileBody(path_join(directory, filename))))
Servable(directory, filename) ==
    /\ ~Contains(filename, DotDot)
    /\ path_join(directory, filename) \in {path_join(<<".">>, f) : f \in Files}
    /\ \E e \in ALLOWED_EXTENSIONS :
         /\ Len(filename) > Len(e)
         /\ lower(SubSeq(filename, Len(filename) - Len(e) + 1, Len(filename))) = e
StaticDirectory == IF req.route = "serve_js" THEN <<"j","s">> ELSE <<".">>

\* C12: with the credential missing no API route issues an outbound request,
\* while /api/health and the static routes answer as they do with one: the
\* health body with 200, a servable file with 200 and its contents.
C12_NoCredentialNoOutbound ==
    /\ COMPANIES_HOUSE_API_KEY = NoKey => outbound = <<>>
    /\ (Handled /\ req.route = "health_check") => resp = Healthy
    /\ (Handled /\ req.route = "index") => resp = ServedFile(<<".">>, F_index)
    /\ (Handled /\ req.route \in {"serve_static", "serve_js"}
               /\ Servable(StaticDirectory, req.ident))
         => resp = ServedFile(StaticDirectory, req.ident)
C12_Witness ==
    /\ COMPANIES_HOUSE_API_KEY = NoKey
    /\ Handled
    /\ req.route \in ApiRoutes
    /\ "param" \in checks
    /\ resp.status = 500
    /\ outbound = <<>>


HasAllowedExtension(filename) ==
    \E e \in ALLOWED_EXTENSIONS :
        /\ Len(filename) > Len(e)
        /\ lower(SubSeq(filename, Len(filename) - Len(e) + 1, Len(filename))) = e
\* The name climbs out of the directory it is asked from.
Escapes(filename) ==
    LET name == normpath(filename)
    IN  name = DotDot \/ StartsWith(name, <<".", ".", "/">>) \/ StartsWith(name, Slash)
Unsafe(filename) ==
    \/ Contains(filename, DotDot)
    \/ StartsWith(filename, Slash)
    \/ Escapes(filename)
    \/ ~HasAllowedExtension(filename)

\* C17: a request to a static route whose path contains '..', starts with a
\* slash, resolves outside the base directory or has an extension that is
\* not allowed is answered with the 404 a missing file gets, whether or not
\* the file it points at exists.
C17_UnsafePathAnsweredAsMissing ==
    (Handled /\ req.route \in {"serve_static", "serve_js"} /\ Unsafe(req.ident))
    => resp = MissingFileResponse


Carries(response, h) ==
    /\ \E i \in DOMAIN response.headers : response.headers[i] = h
    /\ \A i \in DOMAIN response.headers :
         lower(response.headers[i].name) = lower(h.name) => response.headers[i] = h

\* C18: every response sent, on every route and with every outcome, carries
\* each of the five security headers with its fixed value.
C18_SecurityHeadersOnEveryResponse ==
    resp # NoResp => \A i \in DOMAIN SECURITY_HEADERS : Carries(resp, SECURITY_HEADERS[i])


\* C19: an inbound request causes at most one outbound request and one
\* outcome: once the upstream has answered or the call has failed, however
\* it did, exactly one call has been issued and the request has its response.
C19_AtMostOneOutbound ==
    /\ Len(outbound) <= 1
    /\ upstream.kind # "" => (Len(outbound) = 1 /\ resp # NoResp)
    /\ (pc = "done" /\ fn = "") => resp # NoResp
    /\ pc \in {"idle", "upstream"} => resp = NoResp
C19_Witness ==
    /\ pc = "done"
    /\ upstream.kind = "raise"
    /\ "Timeout" \in upstream.exc.bases
    /\ resp.status = 504
    /\ Len(outbound) = 1


\* C20: once the caller's disconnection during a streamed document has been
\* observed, the relay pulls no further chunk from the upstream and emits
\* nothing more.
C20_NoPullAfterDisconnect ==
    [][stream.disconnected =>
         /\ stream'.pending = stream.pending
         /\ stream'.downloaded = stream.downloaded
         /\ stream'.emitted = stream.emitted]_vars
C20_Witness ==
    /\ stream.disconnected
    /\ stream.emitted # <<>>
    /\ stream.pending # <<>>
    /\ pc = "done"


FramingNames ==
    {H_content_encoding, H_content_length, H_transfer_encoding, H_connection}
SecurityNames == {lower(SECURITY_HEADERS[i].name) : i \in DOMAIN SECURITY_HEADERS}
Relayed == resp.streamed /\ upstream.kind = "response"
NoFramingHeader ==
    \A i \in DOMAIN resp.headers : lower(resp.headers[i].name) \notin FramingNames
PassedThrough(h) == \E j \in DOMAIN resp.headers : resp.headers[j] = h

\* C16 as stated: the relayed document response holds none of the
\* upstream's content-encoding, content-length, transfer-encoding and
\* connection headers, in whatever letter case, and holds every other
\* upstream header with its value unchanged.
C16_AllOtherHeadersPassedThrough ==
    Relayed =>
        /\ NoFramingHeader
        /\ \A i \in DOMAIN upstream.headers :
             lower(upstream.headers[i].name) \notin FramingNames
                 => PassedThrough(upstream.headers[i])

\* C16, amended: the same, except that an upstream header named like one of
\* the five security headers is replaced by the gateway's fixed one.
C16_OtherHeadersPassedThroughButSecurity ==
    Relayed =>
        /\ NoFramingHeader
        /\ \A i \in DOMAIN upstream.headers :
             LET h == upstream.headers[i]
             IN  /\ lower(h.name) \notin FramingNames \cup SecurityNames
                      => PassedThrough(h)
                 /\ lower(h.name) \in SecurityNames
                      => \E k \in DOMAIN SECURITY_HEADERS :
                            /\ lower(SECURITY_HEADERS[k].name) = lower(h.name)
                            /\ Carries(resp, SECURITY_HEADERS[k])
C16_Witness ==
    /\ Relayed
    /\ upstream.headers = H_passed
    /\ PassedThrough(Header(H_Content_Type, "application/pdf"))
    /\ pc = "done"


Ceiling == 50 * 1024 * 1024
\* The upstream delivered its body and the caller stayed to the end.
StreamOver == pc = "done" /\ stream.state \in {"ended", "truncated"}
UpstreamBytes == Bytes(upstream.chunks)
EmittedBytes == Bytes(stream.emitted)

\* C13: whatever the size of the upstream body and however it is cut into
\* chunks of at most the chunk size, the bytes emitted to the caller never
\* add up to more than the ceiling of 50 MiB.
C13_EmittedWithinCeiling ==
    stream.state # "none" => EmittedBytes <= Ceiling
C13_Witness ==
    /\ stream.state = "truncated"
    /\ UpstreamBytes > Ceiling
    /\ EmittedBytes = Ceiling

\* C14: when the upstream body is at most the ceiling, the ceiling itself
\* included, and the upstream delivers it to a caller that stays, the relay
\* emits exactly the upstream's chunks, all, in order, unmodified, and ends.
C14_WholeBodyRelayed ==
    (StreamOver /\ UpstreamBytes <= Ceiling)
    => (stream.state = "ended" /\ stream.emitted = upstream.chunks)
C14_Witness ==
    /\ StreamOver
    /\ UpstreamBytes = Ceiling
    /\ stream.state = "ended"
    /\ stream.emitted = upstream.chunks
    /\ \E i \in DOMAIN upstream.chunks : upstream.chunks[i].len # chunk_size

\* C15 as stated: when the upstream body is larger than the ceiling, however
\* it is cut into chunks, the relay delivers exactly ceiling-many bytes, then
\* closes the stream without an error.
C15_ExactlyCeilingDelivered ==
    (StreamOver /\ UpstreamBytes > Ceiling)
    => (EmittedBytes = Ceiling /\ stream.state = "truncated" /\ stream.failure = NoExc)

\* C15, amended: when the upstream body is larger than the ceiling the relay
\* delivers the whole chunks that come before the first chunk with which the
\* total would pass the ceiling, then closes the stream without an error:
\* at most ceiling-many bytes and less than one chunk short of it, and
\* exactly ceiling-many when every chunk has the full chunk size.
C15_WholeChunksUpToCeiling ==
    (StreamOver /\ UpstreamBytes > Ceiling)
    => LET n == Len(stream.emitted)
       IN  /\ stream.state = "truncated" /\ stream.failure = NoExc
           /\ n < Len(upstream.chunks)
           /\ stream.emitted = SubSeq(upstream.chunks, 1, n)
           /\ EmittedBytes <= Ceiling
           /\ EmittedBytes + upstream.chunks[n + 1].len > Ceiling
           /\ (\A i \in DOMAIN upstream.chunks : upstream.chunks[i].len = chunk_size)
                => EmittedBytes = Ceiling
C15_Witness ==
    /\ StreamOver
    /\ UpstreamBytes = SixtyMiB
    /\ EmittedBytes = Ceiling
    /\ stream.state = "truncated"


\* C22: every outbound call carries a finite, fixed timeout, the same on
\* every path of its kind, and the timeout of the document call is strictly
\* longer than the timeout of the metadata calls.
C22_OutboundCallsTimed ==
    \A i \in DOMAIN outbound :
        LET call == outbound[i]
            metadata == IF req.route \in MetadataRoutes THEN {call.timeout} ELSE {30}
            document == IF req.route = "get_document_content" THEN {call.timeout} ELSE {60}
        IN  /\ call.timeout \in Nat \ {0}
            /\ req.route \in MetadataRoutes => call.timeout = 30
            /\ req.route = "get_document_content" => call.timeout = 60
            /\ \A m \in metadata, d \in document : m < d
C22_Witness ==
    /\ pc = "upstream"
    /\ req.route = "get_document_content"
    /\ Len(outbound) = 1
    /\ outbound[1].timeout = 60
    /\ outbound[1].stream


Credential == COMPANIES_HOUSE_API_KEY
InSeq(x, s) == \E i \in DOMAIN s : s[i] = x
CredentialInCall(call) ==
    \/ call.base = Credential
    \/ InSeq(Credential, call.path)
    \/ call.accept = Credential
    \/ InSeq(Credential, call.params.q.s)
CredentialInResponse(response) ==
    \/ InSeq(Credential, response.body)
    \/ \E i \in DOMAIN response.headers :
         \/ response.headers[i].value = Credential
         \/ InSeq(Credential, response.headers[i].name)

\* C23: the credential appears only in the Authorization header of the
\* outbound request: never in its URL or query parameters, and never in a
\* body or header of a response to the caller, nor in a chunk streamed to it.
C23_CredentialOnlyInAuthorization ==
    Credential # NoKey =>
        /\ \A i \in DOMAIN outbound :
             /\ outbound[i].authorization = BasicAuth(Credential)
             /\ ~CredentialInCall(outbound[i])
        /\ ~CredentialInResponse(resp)
        /\ \A i \in DOMAIN stream.emitted :
             stream.emitted[i] \in Range(upstream.chunks)
C23_Witness ==
    /\ Credential # NoKey
    /\ pc = "done"
    /\ req.route \in SearchRoutes
    /\ Len(outbound) = 1
    /\ InSeq(Credential, outbound[1].authorization)
    /\ resp.status = 200


DocumentAnswered ==
    /\ req.route = "get_document_content"
    /\ pc \in {"streaming", "done"}
    /\ upstream.kind = "response"
DocumentNotAvailable(status) ==
    add_security_headers(Plain(status, <<"{", "'error'", ":", "'Document not available'", "}", NL>>))

\* C28: on the document route a body is streamed only when the upstream
\* status is exactly 200; for every other upstream status, other 2xx codes
\* such as 206 included, the answer is the fixed body 'Document not
\* available' with the upstream's status, and nothing of the upstream body
\* is emitted.
C28_StreamedOnlyOn200 ==
    DocumentAnswered =>
        IF upstream.status = 200
        THEN resp.streamed /\ resp.status = 200 /\ stream.state # "none"
        ELSE /\ resp = DocumentNotAvailable(upstream.status)
             /\ stream = NoStream
C28_Witness ==
    /\ DocumentAnswered
    /\ upstream.status = 206
    /\ resp = DocumentNotAvailable(206)
    /\ pc = "done"


\* The request fails the validation of its route, by the route's own check
\* and by the shape the identifier is meant to have alike.
Malformed ==
    \/ /\ req.route \in CompanyRoutes
       /\ ~ValidCompanyNumber(req.ident) /\ ~re_match(CompanyNumberRe, req.ident)
    \/ /\ req.route \in {"get_officer_appointments", "get_document_content"}
       /\ ~ValidId(req.ident) /\ ~re_match(IdRe, req.ident)
    \/ /\ req.route \in SearchRoutes
       /\ ~QueryAcceptable
MissingCredentialResponse ==
    add_security_headers(Plain(500, <<"{", "'error'", ":", "'Server configuration error'", "}", NL>>))

\* C29: on every API route validation of the identifier or query comes
\* before the credential check: a malformed request is answered 400 whether
\* or not the credential is configured, and the missing-credential answer is
\* given only to requests that passed validation.
C29_ValidationBeforeCredential ==
    (Handled /\ pc = "done" /\ req.route \in ApiRoutes)
    => /\ Malformed => resp.status = 400
       /\ resp = MissingCredentialResponse => ~Malformed


Streaming == stream.state # "none"

\* C25 as stated: in every reachable state of a streaming session, the one
\* in which the copy is terminated included, the running byte counter is at
\* most the ceiling.
C25_CounterWithinCeiling ==
    Streaming => stream.downloaded <= Ceiling

\* C25, amended: the counter is the number of bytes emitted, and at most the
\* ceiling, in every state of a session but the one in which the copy is
\* terminated for size; there it has passed the ceiling, by the chunk that
\* was read and not emitted, while the bytes emitted stay within the ceiling.
C25_CounterWithinCeilingUntilCut ==
    /\ (Streaming /\ stream.state # "truncated")
         => (stream.downloaded = EmittedBytes /\ stream.downloaded <= Ceiling)
    /\ stream.state = "truncated"
         => /\ stream.pending # <<>>
            /\ stream.downloaded = EmittedBytes + Head(stream.pending).len
            /\ stream.downloaded > Ceiling
            /\ stream.downloaded <= Ceiling + chunk_size
            /\ EmittedBytes <= Ceiling
C25_Witness ==
    /\ stream.state = "truncated"
    /\ stream.downloaded > Ceiling
    /\ EmittedBytes < Ceiling
    /\ pc = "done"

\* C26: the chunks emitted are always a prefix of the upstream's chunks, and
\* the chunks not read are the rest. At the first chunk that would take the
\* total above the ceiling nothing of that chunk is emitted, the stream ends
\* and no later chunk is read, even one small enough to fit.
C26_EmittedIsPrefix ==
    Streaming =>
        /\ stream.emitted \o stream.pending = upstream.chunks
        /\ stream.state = "truncated"
             => /\ pc = "done"
                /\ stream.pending # <<>>
                /\ EmittedBytes + Head(stream.pending).len > Ceiling
        /\ (stream.state = "open" /\ stream.pending # <<>>) => EmittedBytes <= Ceiling
C26_Witness ==
    /\ stream.state = "truncated"
    /\ pc = "done"
    /\ Len(stream.pending) >= 2
    /\ EmittedBytes + stream.pending[2].len <= Ceiling


Returned_is_safe_path == fn = "is_safe_path" /\ ret.done
EndsWithOneOf(name, extensions) ==
    \E e \in extensions :
        /\ Len(name) > Len(e)
        /\ lower(SubSeq(name, Len(name) - Len(e) + 1, Len(name))) = e
        /\ name[Len(name) - Len(e)] # "/"
SafePath(base_path, path, allowed_extensions) ==
    /\ ~Escapes(path)
    /\ ~Contains(path, DotDot)
    /\ ~StartsWith(path, Slash)
    /\ normpath(path_join(base_path, path)) \in Files
    /\ EndsWithOneOf(normpath(path_join(base_path, path)), allowed_extensions)

\* C27: is_safe_path(base, path, allowed) returns a boolean for every input,
\* never raising, and returns true exactly when the path joins inside the
\* base directory, contains no '..', does not start with '/', the joined
\* path is an existing regular file and its extension, compared without
\* regard to case, is in the allowlist.
C27_SafePathIffAllChecks ==
    Returned_is_safe_path =>
        /\ ret.v.raised = NoExc
        /\ ret.v.value <=> SafePath(arg.base_path, arg.path, arg.allowed_extensions)


Returned_generate_questions_batch == fn = "generate_questions_batch" /\ ret.done
\* s without the characters of ws at its two ends
TrimOf(s, ws) ==
    LET inner == {i \in DOMAIN s : s[i] \notin ws}
    IN  IF inner = {} THEN <<>>
        ELSE [k \in 1..(SetMax(inner) - SetMin(inner) + 1) |-> s[SetMin(inner) + k - 1]]
WithoutOpeningFence(s) ==
    IF Len(s) >= 1 /\ s[1] = FenceJson THEN [k \in 1..(Len(s) - 1) |-> s[k + 1]] ELSE s
WithoutClosingFence(s) ==
    IF Len(s) >= 1 /\ s[Len(s)] = Fence THEN [k \in 1..(Len(s) - 1) |-> s[k]] ELSE s
\* The text inside the optional fences, whitespace of the set ws trimmed.
Unwrapped(text, ws) ==
    TrimOf(WithoutClosingFence(WithoutOpeningFence(TrimOf(text, ws))), ws)
IsJson(s) == JsonValue(DropWhitespace(s))
IsJsonArray(s) == IsJson(s) /\ s[1] = "["
ClientRaised == arg.client.kind = "raise"
ClientGaveText == arg.client.kind = "text"

\* C24 as stated: generate_questions_batch never raises; it returns the
\* empty list whenever the client call raises or the returned text is not
\* valid JSON, and the parsed list whenever the text is a JSON array,
\* optionally wrapped in an opening json fence and a closing fence.
C24_NeverRaisesParsesArray ==
    Returned_generate_questions_batch =>
        LET inside == Unwrapped(arg.client.text, Whitespace)
        IN  /\ ret.v.raised = NoExc
            /\ (ClientRaised \/ ~IsJson(inside)) => ret.v.value = EmptyList
            /\ (ClientGaveText /\ IsJsonArray(inside))
                 => ret.v.value = DropWhitespace(inside)

\* C24, amended: generate_questions_batch raises only what the client call
\* raises outside the Exception hierarchy. Otherwise it returns the empty
\* list whenever the client call raises, the response has no text, or the
\* text, trimmed as str.strip trims and taken out of its optional fences,
\* is not valid JSON; and the parsed list whenever that text is a JSON array.
C24_RaisesOnlyBaseExceptionsParsesArray ==
    Returned_generate_questions_batch =>
        LET inside == Unwrapped(arg.client.text, PyWhitespace)
            passes == ClientRaised /\ "Exception" \notin arg.client.exc.bases
        IN  /\ ret.v.raised # NoExc <=> passes
            /\ passes => ret.v.raised = arg.client.exc
            /\ (~passes /\ (~ClientGaveText \/ ~IsJson(inside)))
                 => ret.v.value = EmptyList
            /\ (ClientGaveText /\ IsJsonArray(inside))
                 => ret.v.value = DropWhitespace(inside)
C24_Witness ==
    /\ Returned_generate_questions_batch
    /\ ClientGaveText
    /\ Len(arg.client.text) >= 2
    /\ arg.client.text[1] = FenceJson
    /\ arg.client.text[Len(arg.client.text)] = Fence
    /\ ret.v = Returned(<<"[", "1", "]">>)


\* The two requests in hand, by thread
Threads == {Frame, parked}
\* What the view function of r does up to its return or its outbound call
ViewAlone(key, r) ==
    CASE r.route = "get_company_profile" -> get_company_profile(key, r)
      [] r.route = "get_document_content" -> get_document_content(key, r)
      [] r.route = "health_check" ->
           [act |-> "respond", resp |-> Plain(200, HealthBody), call |-> NoCall,
            checks |-> {}]
\* The responses the request of f gets when it is the only one, given what
\* the upstream answered to it
ResponsesAlone(key, f) ==
    LET eff == ViewAlone(key, f.req)
    IN  IF eff.act = "respond" THEN {add_security_headers(eff.resp)}
        ELSE IF f.req.route = "get_document_content"
        THEN {add_security_headers(get_document_content_resume(f.upstream))}
        ELSE {add_security_headers(ch_api_request_resume(f.upstream, je)) :
                 je \in JSONDecodeErrors}
\* The stream of f is cut where its own chunks pass the ceiling, and its
\* counter has counted its own chunks only.
StreamAlone(f) ==
    LET chunks == f.upstream.chunks
        sent == Len(f.stream.emitted)
        bytes == Bytes(f.stream.emitted)
    IN  /\ sent <= Len(chunks)
        /\ f.stream.emitted = SubSeq(chunks, 1, sent)
        /\ bytes <= Ceiling
        /\ f.stream.state = "ended" => sent = Len(chunks)
        /\ f.stream.state = "truncated" =>
             /\ sent < Len(chunks)
             /\ f.stream.downloaded = bytes + chunks[sent + 1].len
             /\ f.stream.downloaded > Ceiling
        /\ f.stream.state \notin {"truncated", "none"} => f.stream.downloaded = bytes
AsAlone(key, f) ==
    \/ f.pc \in {"idle", "none"}
    \/ /\ f.pc = "upstream"
       /\ f.outbound = <<ViewAlone(key, f.req).call>>
       /\ f.resp = NoResp
    \/ /\ f.pc \in {"streaming", "done"}
       /\ f.resp \in ResponsesAlone(key, f)
       /\ f.resp.streamed <=> f.stream.state # "none"
       /\ f.resp.streamed => StreamAlone(f)
       /\ f.pc = "done" <=> f.stream.state # "open"

\* C21: requests handled at once do not affect one another. The credential
\* and the debug flag are never written; a step of one thread leaves the
\* request of the other as it was, and a thread that is scheduled again goes
\* on from what it left; each streaming session counts its own bytes against
\* the ceiling; and whatever the interleaving, each request gets the response
\* it gets when handled alone, its stream cut where its own bytes pass the
\* ceiling.
C21_ConcurrentRequestsIndependent ==
    [][/\ COMPANIES_HOUSE_API_KEY' = COMPANIES_HOUSE_API_KEY
       /\ debug_mode' = debug_mode
       /\ thread' = thread => parked' = parked
       /\ thread' # thread => parked' = Frame /\ Frame' = parked
       /\ \A f \in Threads' : AsAlone(COMPANIES_HOUSE_API_KEY', f)]_vars
\* Two documents were streamed at once: the one a byte over the ceiling was
\* cut, the one of exactly max_size bytes went through whole. 
C21_Witness ==
    /\ parked # NoFrame
    /\ \E f \in Threads, g \in Threads :
         /\ f.pc = "done" /\ f.stream.state = "truncated"
         /\ Len(f.stream.emitted) = CeilingChunks
         /\ g.pc = "done" /\ g.stream.state = "ended"
         /\ Bytes(g.stream.emitted) = Ceiling

====
